---- MODULE Spec2Model ----
(***************************************************************************)
(* Engagement state of the service marketplace bot: the per-user browsing  *)
(* cursor, the favorites cursor and the contact rate limiter kept in Redis  *)
(* (RedisService), the provider, rating, favorite and contact rows kept in *)
(* the database, the rating dialogue kept in the dispatcher's FSM storage, *)
(* and the aiogram handlers that drive them.  A handler is a coroutine: it runs    *)
(* atomically between two awaits, so every awaited Redis command or        *)
(* database statement is one step of the handler's task.  Time is a        *)
(* discrete clock (Tick) that ages the Redis keys.                         *)
(***************************************************************************)
EXTENDS Integers, Sequences, FiniteSets, TLC

\* ---------------------------------------------------------------- bounds
NumProviders == 2            \* provider rows 1..NumProviders
TicksPerHour == 2            \* resolution of the clock
MaxInFlight == 2             \* handler tasks the dispatcher runs at once
MaxViews == 3                \* provider views explored
MaxFaults == 1               \* Redis command failures explored
MaxContacts == 3             \* ContactRecords explored
MaxDays == 1                 \* UTC midnights explored
MaxText == 2                 \* characters of a message text explored

\* ------------------------------------------------------ program constants
SESSION_TTL == 3600              \* Settings.SESSION_TTL (seconds)
CONTACT_WINDOW == 3600           \* ttl passed by callback_contact_provider
CONTACT_LIMIT_PER_HOUR == 2      \* Settings.CONTACT_LIMIT_PER_HOUR (environment)
RATING_LIMIT_PER_DAY == 1        \* Settings.RATING_LIMIT_PER_DAY (environment)
FILTER_LIMIT == 100              \* get_filtered(limit=100)

Users == {1, 2}                  \* telegram ids
Actors == {1}                    \* users whose updates arrive
Providers == 1..NumProviders
NoSuchProvider == NumProviders + 1   \* an id no provider row has
Locations == {1}
Categories == {1}
Slots == 1..MaxInFlight
RatingValues == {2, 5}           \* stars sent by the rating keyboard
RatingInputs == {0, 1, 5, 6}     \* integers a rating callback may carry
None == "None"                   \* Python's None
Texts == {"good", "bad"}         \* message.text of a comment
AvgScale == 60                   \* averages are kept in 1/60 of a star

\* seconds -> clock ticks
Ticks(seconds) == (seconds * TicksPerHour) \div 3600

NoExpiry == -1                   \* Redis TTL of a key without expiry

VARIABLES
    browsing_state,      \* value of session:{u}:browsing_state
    browsing_ttl,        \* its remaining ticks; 0 = the key does not exist
    selected_location,   \* value of session:{u}:selected_location
    location_ttl,        \* its remaining ticks; 0 = the key does not exist
    ratelimit,           \* value of ratelimit:{u}:contact; 0 = no key
    ratelimit_ttl,       \* its remaining ticks, or NoExpiry
    favorite_ids,        \* value of session:{u}:favorite_ids
    favorite_ids_ttl,    \* its remaining ticks; 0 = the key does not exist
    favorite_index,      \* value of session:{u}:favorite_index
    favorite_index_ttl,  \* its remaining ticks; 0 = the key does not exist
    is_active,           \* Provider.is_active
    contact_count,       \* Provider.contact_count
    view_count,          \* Provider.view_count
    loc_active,          \* Location.is_active
    contacts,            \* user_provider_contacts rows, in insertion order
    favorites,           \* favorites rows of each user, oldest first
    ratings,             \* the rows of the ratings table
    average_rating,      \* Provider.average_rating
    rating_count,        \* Provider.rating_count
    utc_day,             \* the UTC day datetime.utcnow() falls in
    users,               \* the rows of the users table
    fsm,                 \* FSM storage: state and data of each user
    task,                \* the handler task running in each dispatcher slot
    faults,              \* Redis and database command failures so far
    cfg                  \* scheduling of the run: tasks in flight, failures,
                         \* views and contacts explored

vars == <<browsing_state, browsing_ttl, selected_location, location_ttl,
          ratelimit, ratelimit_ttl, favorite_ids, favorite_ids_ttl,
          favorite_index, favorite_index_ttl, is_active, contact_count,
          view_count, loc_active, contacts, favorites, ratings,
          average_rating, rating_count, utc_day, users, fsm, task, faults, cfg>>

cacheVars == <<browsing_state, browsing_ttl, selected_location, location_ttl,
               ratelimit, ratelimit_ttl, favorite_ids, favorite_ids_ttl,
               favorite_index, favorite_index_ttl>>
browseVars == <<browsing_state, browsing_ttl>>
locVars == <<selected_location, location_ttl>>
rateVars == <<ratelimit, ratelimit_ttl>>
favVars == <<favorite_ids, favorite_ids_ttl, favorite_index, favorite_index_ttl>>
ratingVars == <<ratings, average_rating, rating_count, utc_day>>
dbVars == <<is_active, contact_count, view_count, loc_active, contacts,
            favorites, ratings, average_rating, rating_count, utc_day, users>>

\* ------------------------------------------------------------ data shapes
\* the dict built by set_browsing_state
BrowsingState(location_id, category_id, provider_ids, current_index) ==
    [location_id |-> location_id, category_id |-> category_id,
     provider_ids |-> provider_ids, current_index |-> current_index,
     filters |-> <<>>]

NoState == BrowsingState(0, 0, <<>>, 0)

\* FSM storage after state.clear(): no state and no data (a name that is
\* absent is the empty text, an absent id 0)
NoDialogue ==
    [state |-> "none", provider_id |-> 0, rating |-> 0,
     first_name |-> <<>>, last_name |-> <<>>, phone_number |-> None,
     location_id |-> 0]

IdleTask == [kind |-> "none", pc |-> "idle", user |-> 0, arg |-> 0,
             loc |-> 0, ids |-> <<>>, idx |-> 0, st |-> NoState,
             shown |-> 0, out |-> "none", val |-> 0, found |-> 0,
             existing |-> FALSE, avg |-> 0, cnt |-> 0, cmt |-> None,
             msg |-> "none", txt |-> <<>>, tid |-> 0, data |-> NoDialogue]

\* a row of the users table as UserRepository.create leaves it: the columns
\* the registration fills are NULL
NewUser(telegram_id) ==
    [telegram_id |-> telegram_id, first_name |-> <<>>, last_name |-> <<>>,
     phone_number |-> None, location_id |-> 0]

\* static columns of the provider rows (scripts/populate_data.py approves
\* every provider it creates)
ProviderLocation(p) == 1
ProviderCategory(p) == 1
IsApproved(p) == TRUE

InFlight == Cardinality({h \in Slots : task[h].pc # "idle"})

\* a Redis command, or a statement of update_rating or of
\* increment_contact_count, may raise only while the run still has failures
\* to spend
FailChoices == IF faults < cfg.faults THEN {FALSE, TRUE} ELSE {FALSE}
Spend(fail) == faults' = IF fail THEN faults + 1 ELSE faults


\* ------------------------------------------------------------ RedisService
\* faulty variant: a read that does not notice the key is gone
HasSessionStale(ttl, u, fail) == ~fail

\* get_session: the stored value, or None when the key is absent or the
\* command raised (the exception is logged and swallowed)
HasSession(ttl, u, fail) == ~fail /\ ttl[u] > 0

\* faulty variant: SET ... KEEPTTL: an existing key keeps its remaining time
SetBrowsingKeepTtl(u, st, fail) ==
    IF fail
    THEN UNCHANGED browseVars
    ELSE /\ browsing_state' = [browsing_state EXCEPT ![u] = st]
         /\ browsing_ttl' = [browsing_ttl EXCEPT ![u] =
                IF @ > 0 THEN @ ELSE Ticks(SESSION_TTL)]

\* faulty variant: the key built without the user id, one value for all
SetBrowsingShared(u, st, fail) ==
    IF fail
    THEN UNCHANGED browseVars
    ELSE /\ browsing_state' = [v \in Users |-> st]
         /\ browsing_ttl' = [v \in Users |-> Ticks(SESSION_TTL)]

\* set_session on browsing_state: SET key value EX (ttl or SESSION_TTL);
\* a raised command is logged and leaves the key as it was
SetBrowsing(u, st, fail) ==
    IF fail
    THEN UNCHANGED browseVars
    ELSE /\ browsing_state' = [browsing_state EXCEPT ![u] = st]
         /\ browsing_ttl' = [browsing_ttl EXCEPT ![u] = Ticks(SESSION_TTL)]

\* delete_session on browsing_state
DeleteBrowsing(u, fail) ==
    IF fail
    THEN UNCHANGED browseVars
    ELSE /\ browsing_state' = [browsing_state EXCEPT ![u] = NoState]
         /\ browsing_ttl' = [browsing_ttl EXCEPT ![u] = 0]

\* set_session on selected_location
SetLocation(u, location_id, fail) ==
    IF fail
    THEN UNCHANGED locVars
    ELSE /\ selected_location' = [selected_location EXCEPT ![u] = location_id]
         /\ location_ttl' = [location_ttl EXCEPT ![u] = Ticks(SESSION_TTL)]

\* ------------------------------------------------------ ProviderRepository
Min(a, b) == IF a < b THEN a ELSE b

\* ORDER BY average_rating DESC, contact_count DESC
RankedBefore(p, q) ==
    \/ average_rating[p] > average_rating[q]
    \/ /\ average_rating[p] = average_rating[q]
       /\ contact_count[p] >= contact_count[q]

\* every row order the database may return for the ORDER BY: rows equal in
\* both sort keys come back in any order
Orderings(S) ==
    IF S = {} THEN {<<>>}
    ELSE {s \in [1..Cardinality(S) -> S] :
            /\ \A i, j \in 1..Cardinality(S) : i # j => s[i] # s[j]
            /\ \A i, j \in 1..Cardinality(S) : i < j => RankedBefore(s[i], s[j])}

\* get_filtered(location_id, category_id, approved_only=True): the ordered
\* ids of the rows it may return
get_filtered(location_id, category_id) ==
    LET matching == {p \in Providers :
                        /\ is_active[p]
                        /\ IsApproved(p)
                        /\ ProviderLocation(p) = location_id
                        /\ ProviderCategory(p) = category_id}
    IN  {SubSeq(s, 1, Min(Len(s), FILTER_LIMIT)) : s \in Orderings(matching)}

\* ------------------------------------------------------------- task helpers
Goto(h, pc) == [task[h] EXCEPT !.pc = pc]
Finish(h, out) == [task[h] EXCEPT !.pc = "reply", !.out = out]
At(h, pc) == task[h].pc = pc

\* the dispatcher starts a task in the first free slot
FreeSlot(h) ==
    /\ task[h].pc = "idle"
    /\ \A g \in Slots : g < h => task[g].pc # "idle"
    /\ InFlight < cfg.inflight

UserBusy(u) == \E g \in Slots : task[g].pc # "idle" /\ task[g].user = u
Selecting(u) ==
    \E g \in Slots : task[g].pc # "idle" /\ task[g].user = u /\ task[g].kind = "category"

NewTask(kind, pc, u, arg) ==
    [IdleTask EXCEPT !.kind = kind, !.pc = pc, !.user = u, !.arg = arg]

RECURSIVE Total(_, _)
Total(count, S) ==
    IF S = {} THEN 0
    ELSE LET p == CHOOSE q \in S : TRUE IN count[p] + Total(count, S \ {p})

ViewsLeft == Total(view_count, Providers) < cfg.views

\* ---------------------------------------------------------- browse handlers
\* faulty variant: inclusive comparisons at both ends
CanAdvanceInclusive(kind, current_index, total) ==
    IF kind = "next" THEN current_index <= total - 1 ELSE current_index >= 0

\* callback_browse_next: current_index < total - 1
\* callback_browse_prev: current_index > 0
CanAdvance(kind, current_index, total) ==
    IF kind = "next" THEN current_index < total - 1 ELSE current_index > 0

TargetIndex(kind, current_index) ==
    IF kind = "next" THEN current_index + 1 ELSE current_index - 1

\* show_provider: not (index < 0 or index >= len(provider_ids))
InRange(index, provider_ids) == ~(index < 0 \/ index >= Len(provider_ids))

\* faulty variant: the index stored one too far
WithIndexOffByOne(state, index) == [state EXCEPT !.current_index = index + 1]

\* faulty variant: the stored index stepped in place instead of set
WithIndexStepped(state, index) == [state EXCEPT !.current_index = @ + 1]

\* update_browsing_index: state["current_index"] = index
WithIndex(state, index) == [state EXCEPT !.current_index = index]

\* an update "browse:next" / "browse:prev" arrives
StartNav(h) ==
    \E u \in cfg.actors, kind \in {"next", "prev"} :
        /\ FreeSlot(h)
        /\ ViewsLeft
        /\ cfg.exclusive => ~Selecting(u)
        /\ task' = [task EXCEPT ![h] = NewTask(kind, "nav_get", u, 0)]
        /\ UNCHANGED <<cacheVars, dbVars, faults, fsm, cfg>>

\* callback_browse_next / callback_browse_prev up to the call of show_provider
NavGet(h) ==
    /\ At(h, "nav_get")
    /\ \E fail \in FailChoices :
        LET u == task[h].user
            state == browsing_state[u]
            current_index == state.current_index
            total == Len(state.provider_ids)
        IN  /\ Spend(fail)
            /\ task' = [task EXCEPT ![h] =
                    IF ~HasSession(browsing_ttl, u, fail)
                    THEN Finish(h, "no_state")
                    ELSE IF CanAdvance(task[h].kind, current_index, total)
                    THEN [task[h] EXCEPT !.pc = "sp_get",
                             !.idx = TargetIndex(task[h].kind, current_index)]
                    ELSE Finish(h, "noop")]
    /\ UNCHANGED <<cacheVars, dbVars, fsm, cfg>>

\* show_provider: read the state and check the index
ShowGet(h) ==
    /\ At(h, "sp_get")
    /\ \E fail \in FailChoices :
        LET u == task[h].user
            provider_ids == browsing_state[u].provider_ids
        IN  /\ Spend(fail)
            /\ task' = [task EXCEPT ![h] =
                    IF ~HasSession(browsing_ttl, u, fail)
                    THEN Finish(h, "lost")
                    ELSE IF ~InRange(task[h].idx, provider_ids)
                    THEN Finish(h, "range")
                    ELSE [task[h] EXCEPT !.pc = "ubi_get", !.ids = provider_ids]]
    /\ UNCHANGED <<cacheVars, dbVars, fsm, cfg>>

\* update_browsing_index: state = get_browsing_state(user_id)
UbiGet(h) ==
    /\ At(h, "ubi_get")
    /\ \E fail \in FailChoices :
        LET u == task[h].user
        IN  /\ Spend(fail)
            /\ task' = [task EXCEPT ![h] =
                    IF HasSession(browsing_ttl, u, fail)
                    THEN [task[h] EXCEPT !.pc = "ubi_set",
                             !.st = WithIndex(browsing_state[u], task[h].idx)]
                    ELSE Goto(h, "sp_view")]
    /\ UNCHANGED <<cacheVars, dbVars, fsm, cfg>>

\* update_browsing_index: set_session(user_id, "browsing_state", state)
UbiSet(h) ==
    /\ At(h, "ubi_set")
    /\ \E fail \in FailChoices :
        /\ Spend(fail)
        /\ SetBrowsing(task[h].user, task[h].st, fail)
    /\ task' = [task EXCEPT ![h] = [task[h] EXCEPT !.pc = "sp_view", !.st = NoState]]
    /\ UNCHANGED <<locVars, rateVars, favVars, dbVars, fsm, cfg>>

\* provider_ids[index] in Python: a negative index counts from the end, and an
\* index outside [-len, len-1] raises IndexError; 0 stands for the raise
PyIndex(seq, index) ==
    IF index >= 0 /\ index < Len(seq) THEN index + 1
    ELSE IF index < 0 /\ index >= 0 - Len(seq) THEN Len(seq) + index + 1
    ELSE 0

\* show_provider: get_by_id(provider_ids[index]), increment_view_count,
\* render and send
ShowView(h) ==
    /\ At(h, "sp_view")
    /\ LET at == PyIndex(task[h].ids, task[h].idx)
           provider == IF at = 0 THEN 0 ELSE task[h].ids[at]
       IN  IF at = 0
           THEN /\ UNCHANGED view_count
                /\ task' = [task EXCEPT ![h] = Finish(h, "raised")]
           ELSE IF provider \in Providers
           THEN /\ view_count' = [view_count EXCEPT ![provider] = @ + 1]
                /\ task' = [task EXCEPT ![h] =
                      [task[h] EXCEPT !.pc = "reply", !.out = "shown",
                                      !.shown = provider]]
           ELSE /\ UNCHANGED view_count
                /\ task' = [task EXCEPT ![h] = Finish(h, "gone")]
    /\ UNCHANGED <<cacheVars, is_active, contact_count, loc_active, contacts,
                   favorites, ratingVars, faults, users, fsm, cfg>>

\* the handler's last await (callback.answer / message.answer): the task ends
Reply(h) ==
    /\ At(h, "reply")
    /\ task' = [task EXCEPT ![h] = IdleTask]
    /\ UNCHANGED <<cacheVars, dbVars, faults, fsm, cfg>>

\* the reply-keyboard button "Browse Services" arrives
StartMenu(h) ==
    \E u \in cfg.actors :
        /\ FreeSlot(h)
        /\ task' = [task EXCEPT ![h] = NewTask("menu", "menu", u, 0)]
        /\ UNCHANGED <<cacheVars, dbVars, faults, fsm, cfg>>

\* faulty variant: every location counted as active
get_all_active_any == Locations

\* LocationRepository.get_all_active
get_all_active == {l \in Locations : loc_active[l]}

\* browse_start: clear the previous browsing state unless no location is active
BrowseStart(h) ==
    /\ At(h, "menu")
    /\ \E fail \in FailChoices :
        /\ Spend(fail)
        /\ IF get_all_active # {}
           THEN /\ DeleteBrowsing(task[h].user, fail)
                /\ task' = [task EXCEPT ![h] = Finish(h, "locations")]
           ELSE /\ UNCHANGED browseVars
                /\ task' = [task EXCEPT ![h] = Finish(h, "error")]
    /\ UNCHANGED <<locVars, rateVars, favVars, dbVars, fsm, cfg>>

\* an update "location:<id>" arrives
StartLocation(h) ==
    \E u \in cfg.actors, location_id \in Locations :
        /\ FreeSlot(h)
        /\ task' = [task EXCEPT ![h] = NewTask("location", "loc_set", u, location_id)]
        /\ UNCHANGED <<cacheVars, dbVars, faults, fsm, cfg>>

\* callback_location_select: remember the location, show the categories
LocationSelect(h) ==
    /\ At(h, "loc_set")
    /\ \E fail \in FailChoices :
        /\ Spend(fail)
        /\ SetLocation(task[h].user, task[h].arg, fail)
    /\ task' = [task EXCEPT ![h] =
            Finish(h, IF Categories = {} THEN "error" ELSE "categories")]
    /\ UNCHANGED <<browseVars, rateVars, favVars, dbVars, fsm, cfg>>

\* an update "category:<id>" arrives
StartCategory(h) ==
    \E u \in cfg.actors, category_id \in Categories :
        /\ FreeSlot(h)
        /\ ViewsLeft
        /\ cfg.exclusive => ~UserBusy(u)
        /\ task' = [task EXCEPT ![h] = NewTask("category", "cat_loc", u, category_id)]
        /\ UNCHANGED <<cacheVars, dbVars, faults, fsm, cfg>>

\* callback_category_select: location_id = get_session("selected_location")
CategoryGetLocation(h) ==
    /\ At(h, "cat_loc")
    /\ \E fail \in FailChoices :
        LET u == task[h].user
        IN  /\ Spend(fail)
            /\ task' = [task EXCEPT ![h] =
                    IF HasSession(location_ttl, u, fail) /\ selected_location[u] # 0
                    THEN [task[h] EXCEPT !.pc = "cat_query", !.loc = selected_location[u]]
                    ELSE Finish(h, "error")]
    /\ UNCHANGED <<cacheVars, dbVars, fsm, cfg>>

\* callback_category_select: providers = get_filtered(...)
CategoryQuery(h) ==
    /\ At(h, "cat_query")
    /\ \E provider_ids \in get_filtered(task[h].loc, task[h].arg) :
        task' = [task EXCEPT ![h] =
            IF provider_ids = <<>>
            THEN Finish(h, "no_providers")
            ELSE [task[h] EXCEPT !.pc = "cat_set", !.ids = provider_ids]]
    /\ UNCHANGED <<cacheVars, dbVars, faults, fsm, cfg>>

\* callback_category_select: set_browsing_state(..., current_index=0), then
\* show_provider(..., 0)
CategorySet(h) ==
    /\ At(h, "cat_set")
    /\ \E fail \in FailChoices :
        /\ Spend(fail)
        /\ SetBrowsing(task[h].user,
                       BrowsingState(task[h].loc, task[h].arg, task[h].ids, 0),
                       fail)
    /\ task' = [task EXCEPT ![h] =
            [task[h] EXCEPT !.pc = "sp_get", !.idx = 0]]
    /\ UNCHANGED <<locVars, rateVars, favVars, dbVars, fsm, cfg>>

\* ------------------------------------------------------------ environment
\* the clock advances: every key with an expiry ages, and is gone at 0
Aged(ttl) == [u \in Users |-> IF ttl[u] > 0 THEN ttl[u] - 1 ELSE ttl[u]]
Expired(ttl, u) == ttl[u] = 1

Tick ==
    /\ browsing_ttl' = Aged(browsing_ttl)
    /\ browsing_state' = [u \in Users |->
            IF Expired(browsing_ttl, u) THEN NoState ELSE browsing_state[u]]
    /\ location_ttl' = Aged(location_ttl)
    /\ selected_location' = [u \in Users |->
            IF Expired(location_ttl, u) THEN 0 ELSE selected_location[u]]
    /\ ratelimit_ttl' = Aged(ratelimit_ttl)
    /\ ratelimit' = [u \in Users |->
            IF Expired(ratelimit_ttl, u) THEN 0 ELSE ratelimit[u]]
    /\ favorite_ids_ttl' = Aged(favorite_ids_ttl)
    /\ favorite_ids' = [u \in Users |->
            IF Expired(favorite_ids_ttl, u) THEN <<>> ELSE favorite_ids[u]]
    /\ favorite_index_ttl' = Aged(favorite_index_ttl)
    /\ favorite_index' = [u \in Users |->
            IF Expired(favorite_index_ttl, u) THEN 0 ELSE favorite_index[u]]
    /\ UNCHANGED <<dbVars, task, faults, fsm, cfg>>

\* callback_admin_provider_toggle -> ProviderRepository.toggle_active
ToggleProvider ==
    \E p \in Providers :
        /\ is_active' = [is_active EXCEPT ![p] = ~@]
        /\ UNCHANGED <<cacheVars, contact_count, view_count, loc_active,
                       contacts, favorites, ratingVars, task, faults, users, fsm,
                   cfg>>

\* callback_admin_location_toggle -> LocationRepository.toggle_active
ToggleLocation ==
    \E l \in Locations :
        /\ loc_active' = [loc_active EXCEPT ![l] = ~@]
        /\ UNCHANGED <<cacheVars, is_active, contact_count, view_count,
                       contacts, favorites, ratingVars, task, faults, users, fsm,
                   cfg>>

\* ---------------------------------------------------------- contact handler
\* get_rate_limit: int(value) if value else 0; 0 when the command raised
get_rate_limit(u, fail) == IF fail THEN 0 ELSE ratelimit[u]

\* faulty variant: the limit never applied
LimitReachedNever(count) == FALSE

\* faulty variant: the limit compared with > instead of >=
LimitReachedStrict(count) == count > CONTACT_LIMIT_PER_HOUR

\* callback_contact_provider: contact_count >= settings.CONTACT_LIMIT_PER_HOUR
LimitReached(count) == count >= CONTACT_LIMIT_PER_HOUR

\* an update "contact:<provider_id>" arrives
StartContact(h) ==
    \E u \in cfg.actors, provider_id \in Providers \cup {NoSuchProvider} :
        /\ FreeSlot(h)
        /\ Len(contacts) < cfg.contacts
        /\ task' = [task EXCEPT ![h] = NewTask("contact", "ct_check", u, provider_id)]
        /\ UNCHANGED <<cacheVars, dbVars, faults, fsm, cfg>>

\* faulty variant: the check counts the attempt
PeekCounting(u, fail) ==
    /\ ratelimit' = [ratelimit EXCEPT ![u] = IF fail THEN @ ELSE @ + 1]
    /\ UNCHANGED ratelimit_ttl

\* faulty variant: the read refreshes the window of an existing counter
PeekTouching(u, fail) ==
    /\ UNCHANGED ratelimit
    /\ ratelimit_ttl' = [ratelimit_ttl EXCEPT ![u] =
            IF ~fail /\ ratelimit[u] > 0 THEN Ticks(CONTACT_WINDOW) ELSE @]

\* get_rate_limit: what redis.get(key) does to the cache -- nothing, whether
\* the key exists or not and whether the call succeeds or not
Peek(u, fail) == UNCHANGED rateVars

\* callback_contact_provider: check the rate limit
ContactCheck(h) ==
    /\ At(h, "ct_check")
    /\ \E fail \in FailChoices :
        /\ Spend(fail)
        /\ Peek(task[h].user, fail)
        /\ task' = [task EXCEPT ![h] =
                IF LimitReached(get_rate_limit(task[h].user, fail))
                THEN Finish(h, "limit")
                ELSE Goto(h, "ct_create")]
    /\ UNCHANGED <<browseVars, locVars, favVars, dbVars, fsm, cfg>>

\* faulty variant: one row per (user, provider) pair
create_contact_once(u, p) ==
    IF \E i \in 1..Len(contacts) :
            contacts[i] = [user_id |-> u, provider_id |-> p]
    THEN contacts
    ELSE Append(contacts, [user_id |-> u, provider_id |-> p])

\* ContactRepository.create: a new user_provider_contacts row
create_contact(u, p) == Append(contacts, [user_id |-> u, provider_id |-> p])

\* callback_contact_provider: get_by_id, then ContactRepository.create
ContactCreate(h) ==
    /\ At(h, "ct_create")
    /\ IF task[h].arg \in Providers
       THEN /\ contacts' = create_contact(task[h].user, task[h].arg)
            /\ task' = [task EXCEPT ![h] = Goto(h, "ct_count")]
       ELSE /\ UNCHANGED contacts
            /\ task' = [task EXCEPT ![h] = Finish(h, "error")]
    /\ UNCHANGED <<cacheVars, is_active, contact_count, view_count, loc_active,
                   favorites, ratingVars, faults, users, fsm, cfg>>

\* faulty variant: an increment that is lost when the field was already
\* incremented by another request
increment_contact_count_lost(p) ==
    [contact_count EXCEPT ![p] = IF @ >= 1 THEN @ ELSE @ + 1]

\* UPDATE providers SET contact_count = contact_count + 1 WHERE id = p: the
\* addition is done by the database inside the statement
increment_contact_count(p) == [contact_count EXCEPT ![p] = @ + 1]

\* ProviderRepository.increment_contact_count: one UPDATE statement and its
\* commit; when they raise, the exception leaves callback_contact_provider
ContactCount(h) ==
    /\ At(h, "ct_count")
    /\ \E fail \in FailChoices :
        /\ Spend(fail)
        /\ IF fail
           THEN /\ UNCHANGED contact_count
                /\ task' = [task EXCEPT ![h] = Finish(h, "raised")]
           ELSE /\ contact_count' = increment_contact_count(task[h].arg)
                /\ task' = [task EXCEPT ![h] = Goto(h, "rl_incr")]
    /\ UNCHANGED <<cacheVars, is_active, view_count, loc_active, contacts,
                   favorites, ratingVars, users, fsm, cfg>>

\* faulty variant: the counter rewritten with SET, which drops its expiry
IncrExpiryDropped(u) == NoExpiry

\* redis.incr(key): a missing key is created without an expiry, an existing
\* key keeps the expiry it has
IncrExpiry(u) == IF ratelimit[u] = 0 THEN NoExpiry ELSE ratelimit_ttl[u]

\* increment_rate_limit: count = redis.incr(key); INCR creates a missing key
\* at 1 and gives it no expiry
RateIncr(h) ==
    /\ At(h, "rl_incr")
    /\ \E fail \in FailChoices :
        LET u == task[h].user
            count == ratelimit[u] + 1
        IN  /\ Spend(fail)
            /\ IF fail
               THEN /\ UNCHANGED rateVars
                    /\ task' = [task EXCEPT ![h] = Finish(h, "saved")]
               ELSE /\ ratelimit' = [ratelimit EXCEPT ![u] = count]
                    /\ ratelimit_ttl' = [ratelimit_ttl EXCEPT ![u] = IncrExpiry(u)]
                    /\ task' = [task EXCEPT ![h] =
                            IF count = 1 THEN Goto(h, "rl_expire")
                                         ELSE Finish(h, "saved")]
    /\ UNCHANGED <<browseVars, locVars, favVars, dbVars, fsm, cfg>>

\* increment_rate_limit: if count == 1: redis.expire(key, ttl)
RateExpire(h) ==
    /\ At(h, "rl_expire")
    /\ \E fail \in FailChoices :
        LET u == task[h].user
        IN  /\ Spend(fail)
            /\ IF fail \/ ratelimit[u] = 0
               THEN UNCHANGED ratelimit_ttl
               ELSE ratelimit_ttl' = [ratelimit_ttl EXCEPT ![u] = Ticks(CONTACT_WINDOW)]
    /\ task' = [task EXCEPT ![h] = Finish(h, "saved")]
    /\ UNCHANGED <<ratelimit, browseVars, locVars, favVars, dbVars, fsm, cfg>>

\* -------------------------------------------------------- favorites handlers
\* set_session on favorite_ids
SetFavoriteIds(u, ids, fail) ==
    IF fail
    THEN UNCHANGED <<favorite_ids, favorite_ids_ttl>>
    ELSE /\ favorite_ids' = [favorite_ids EXCEPT ![u] = ids]
         /\ favorite_ids_ttl' = [favorite_ids_ttl EXCEPT ![u] = Ticks(SESSION_TTL)]

\* set_session on favorite_index
SetFavoriteIndex(u, index, fail) ==
    IF fail
    THEN UNCHANGED <<favorite_index, favorite_index_ttl>>
    ELSE /\ favorite_index' = [favorite_index EXCEPT ![u] = index]
         /\ favorite_index_ttl' = [favorite_index_ttl EXCEPT ![u] = Ticks(SESSION_TTL)]

IsFavorite(u, p) == \E i \in 1..Len(favorites[u]) : favorites[u][i] = p

\* FavoriteRepository.add: Favorite(user_id, provider_id) with created_at =
\* now is the newest row of the user
AddFavorite(u, p) == Append(favorites[u], p)

\* Index("idx_favorite_user_provider", "user_id", "provider_id", unique=True):
\* whether a new row for the pair may be inserted
UniqueFavorite(u, p) == ~IsFavorite(u, p)

\* faulty variant: the DELETE without the provider_id condition
RemoveFavoriteAny(u, p) == <<>>

\* FavoriteRepository.remove: DELETE ... WHERE user_id, provider_id
RemoveFavorite(u, p) == SelectSeq(favorites[u], LAMBDA q : q # p)

\* FavoriteRepository.get_user_favorites: ORDER BY created_at DESC
get_user_favorites(u) ==
    [i \in 1..Len(favorites[u]) |-> favorites[u][Len(favorites[u]) + 1 - i]]

\* an update "favorite:<provider_id>" / "unfavorite:<provider_id>" arrives
StartFavorite(h) ==
    \E u \in cfg.actors, provider_id \in Providers, kind \in {"favorite", "unfavorite"} :
        /\ FreeSlot(h)
        /\ cfg.also = "favorite"
        /\ task' = [task EXCEPT ![h] =
                NewTask(kind, IF kind = "favorite" THEN "fav_get" ELSE "fav_db",
                        u, provider_id)]
        /\ UNCHANGED <<cacheVars, dbVars, faults, fsm, cfg>>

\* FavoriteRepository.add: existing = get_user_favorite(...); if existing:
\* return existing
FavoriteGet(h) ==
    /\ At(h, "fav_get")
    /\ task' = [task EXCEPT ![h] =
            IF IsFavorite(task[h].user, task[h].arg)
            THEN Finish(h, "favorite_added")
            ELSE Goto(h, "fav_commit")]
    /\ UNCHANGED <<cacheVars, dbVars, faults, fsm, cfg>>

\* FavoriteRepository.add: session.add(favorite); session.commit(); a commit
\* that violates idx_favorite_user_provider raises IntegrityError
FavoriteCommit(h) ==
    /\ At(h, "fav_commit")
    /\ LET u == task[h].user
       IN  IF UniqueFavorite(u, task[h].arg)
           THEN /\ favorites' = [favorites EXCEPT ![u] = AddFavorite(u, task[h].arg)]
                /\ task' = [task EXCEPT ![h] = Finish(h, "favorite_added")]
           ELSE /\ UNCHANGED favorites
                /\ task' = [task EXCEPT ![h] = Finish(h, "raised")]
    /\ UNCHANGED <<cacheVars, is_active, contact_count, view_count, loc_active,
                   contacts, ratingVars, faults, users, fsm, cfg>>

\* callback_remove_favorite: FavoriteRepository.remove; found keeps
\* result.rowcount, on which the returned bool rests
FavoriteWrite(h) ==
    /\ At(h, "fav_db")
    /\ LET u == task[h].user
       IN  /\ favorites' = [favorites EXCEPT ![u] = RemoveFavorite(u, task[h].arg)]
           /\ task' = [task EXCEPT ![h] =
                    [Finish(h, "favorite_removed")
                        EXCEPT !.found = IF IsFavorite(u, task[h].arg) THEN 1 ELSE 0]]
    /\ UNCHANGED <<cacheVars, is_active, contact_count, view_count, loc_active,
                   contacts, ratingVars, faults, users, fsm, cfg>>

\* the command /myfavorites arrives; the rating router comes first, so a
\* message sent while waiting_for_comment is taken as the comment instead
StartFavorites(h) ==
    \E u \in cfg.actors :
        /\ FreeSlot(h)
        /\ cfg.also = "favorite"
        /\ fsm[u].state # "waiting_for_comment"
        /\ task' = [task EXCEPT ![h] = NewTask("favorites", "mf_query", u, 0)]
        /\ UNCHANGED <<cacheVars, dbVars, faults, fsm, cfg>>

\* cmd_favorites: get_user_favorites
FavoritesQuery(h) ==
    /\ At(h, "mf_query")
    /\ LET provider_ids == get_user_favorites(task[h].user)
       IN  task' = [task EXCEPT ![h] =
                IF provider_ids = <<>>
                THEN Finish(h, "no_favorites")
                ELSE [task[h] EXCEPT !.pc = "mf_ids", !.ids = provider_ids]]
    /\ UNCHANGED <<cacheVars, dbVars, faults, fsm, cfg>>

\* cmd_favorites: set_session(user_id, "favorite_ids", provider_ids)
FavoritesSetIds(h) ==
    /\ At(h, "mf_ids")
    /\ \E fail \in FailChoices :
        /\ Spend(fail)
        /\ SetFavoriteIds(task[h].user, task[h].ids, fail)
    /\ task' = [task EXCEPT ![h] = Goto(h, "mf_index")]
    /\ UNCHANGED <<browseVars, locVars, rateVars, favorite_index,
                   favorite_index_ttl, dbVars, fsm, cfg>>

\* cmd_favorites: set_session(user_id, "favorite_index", 0), show_favorite(0)
FavoritesSetIndex(h) ==
    /\ At(h, "mf_index")
    /\ \E fail \in FailChoices :
        /\ Spend(fail)
        /\ SetFavoriteIndex(task[h].user, 0, fail)
    /\ task' = [task EXCEPT ![h] = [task[h] EXCEPT !.pc = "sf_get", !.idx = 0]]
    /\ UNCHANGED <<browseVars, locVars, rateVars, favorite_ids,
                   favorite_ids_ttl, dbVars, fsm, cfg>>

\* an update "fav:next" / "fav:prev" arrives
StartFavNav(h) ==
    \E u \in cfg.actors, kind \in {"fav_next", "fav_prev"} :
        /\ FreeSlot(h)
        /\ cfg.also = "favorite"
        /\ task' = [task EXCEPT ![h] = NewTask(kind, "fn_index", u, 0)]
        /\ UNCHANGED <<cacheVars, dbVars, faults, fsm, cfg>>

\* callback_fav_next / callback_fav_prev: current_index = get_session(...);
\* fav:prev compares it with 0 at once, and None > 0 raises TypeError
FavNavIndex(h) ==
    /\ At(h, "fn_index")
    /\ \E fail \in FailChoices :
        LET u == task[h].user
            found == HasSession(favorite_index_ttl, u, fail)
            current_index == favorite_index[u]
        IN  /\ Spend(fail)
            /\ task' = [task EXCEPT ![h] =
                    IF task[h].kind = "fav_next"
                    THEN [task[h] EXCEPT !.pc = "fn_ids", !.found = found,
                                         !.idx = current_index]
                    ELSE IF ~found THEN Finish(h, "raised")
                    ELSE IF current_index > 0
                    THEN [task[h] EXCEPT !.pc = "sf_get", !.idx = current_index - 1]
                    ELSE Finish(h, "noop")]
    /\ UNCHANGED <<cacheVars, dbVars, fsm, cfg>>

\* callback_fav_next: favorite_ids and current_index < len(favorite_ids) - 1
FavNavIds(h) ==
    /\ At(h, "fn_ids")
    /\ \E fail \in FailChoices :
        LET u == task[h].user
        IN  /\ Spend(fail)
            /\ task' = [task EXCEPT ![h] =
                    IF ~HasSession(favorite_ids_ttl, u, fail) THEN Finish(h, "noop")
                    ELSE IF ~task[h].found THEN Finish(h, "raised")
                    ELSE IF task[h].idx < Len(favorite_ids[u]) - 1
                    THEN [task[h] EXCEPT !.pc = "sf_get", !.idx = task[h].idx + 1]
                    ELSE Finish(h, "noop")]
    /\ UNCHANGED <<cacheVars, dbVars, fsm, cfg>>

\* show_favorite: read favorite_ids and check the index
ShowFavoriteGet(h) ==
    /\ At(h, "sf_get")
    /\ \E fail \in FailChoices :
        LET u == task[h].user
        IN  /\ Spend(fail)
            /\ task' = [task EXCEPT ![h] =
                    IF \/ ~HasSession(favorite_ids_ttl, u, fail)
                       \/ ~InRange(task[h].idx, favorite_ids[u])
                    THEN Finish(h, "nothing")
                    ELSE [task[h] EXCEPT !.pc = "sf_set", !.ids = favorite_ids[u]]]
    /\ UNCHANGED <<cacheVars, dbVars, fsm, cfg>>

\* show_favorite: set_session(user_id, "favorite_index", index)
ShowFavoriteSet(h) ==
    /\ At(h, "sf_set")
    /\ \E fail \in FailChoices :
        /\ Spend(fail)
        /\ SetFavoriteIndex(task[h].user, task[h].idx, fail)
    /\ task' = [task EXCEPT ![h] = Goto(h, "sf_view")]
    /\ UNCHANGED <<browseVars, locVars, rateVars, favorite_ids,
                   favorite_ids_ttl, dbVars, fsm, cfg>>

\* show_favorite: get_by_id(favorite_ids[index]), render and send
ShowFavoriteView(h) ==
    /\ At(h, "sf_view")
    /\ LET provider == task[h].ids[task[h].idx + 1]
       IN  task' = [task EXCEPT ![h] =
                IF provider \in Providers
                THEN [task[h] EXCEPT !.pc = "reply", !.out = "shown",
                                     !.shown = provider]
                ELSE Finish(h, "nothing")]
    /\ UNCHANGED <<cacheVars, dbVars, faults, fsm, cfg>>

\* ----------------------------------------------------------- rating handlers
\* faulty variant: rows written since 00:00 UTC, edited ones included
count_user_ratings_edited_today(u) ==
    Cardinality({r \in ratings : r.user_id = u /\ r.updated_at >= utc_day})

\* RatingRepository.count_user_ratings_today: rows created since 00:00 UTC
count_user_ratings_today(u) ==
    Cardinality({r \in ratings : r.user_id = u /\ r.created_at >= utc_day})

\* an update "rate:<provider_id>" arrives
StartRate(h) ==
    \E u \in cfg.actors, provider_id \in Providers :
        /\ FreeSlot(h)
        /\ cfg.also = "rating"
        /\ task' = [task EXCEPT ![h] = NewTask("rate", "rt_count", u, provider_id)]
        /\ UNCHANGED <<cacheVars, dbVars, faults, fsm, cfg>>

\* callback_rate_provider: rating_count >= settings.RATING_LIMIT_PER_DAY
RateCheck(h) ==
    /\ At(h, "rt_count")
    /\ task' = [task EXCEPT ![h] =
            IF count_user_ratings_today(task[h].user) >= RATING_LIMIT_PER_DAY
            THEN Finish(h, "rating_limit")
            ELSE Finish(h, "rate_provider")]
    /\ UNCHANGED <<cacheVars, dbVars, faults, fsm, cfg>>

\* an update "rating:<provider_id>:<stars>" arrives
StartRatingSelect(h) ==
    \E u \in cfg.actors, provider_id \in Providers, rating_value \in cfg.values :
        /\ FreeSlot(h)
        /\ cfg.also = "rating"
        /\ task' = [task EXCEPT ![h] =
                [NewTask("rating", "rs_store", u, provider_id) EXCEPT !.val = rating_value]]
        /\ UNCHANGED <<cacheVars, dbVars, faults, fsm, cfg>>

\* callback_rating_select: state.update_data, state.set_state
RatingSelect(h) ==
    /\ At(h, "rs_store")
    /\ fsm' = [fsm EXCEPT ![task[h].user] =
            [@ EXCEPT !.state = "waiting_for_comment",
                      !.provider_id = task[h].arg, !.rating = task[h].val]]
    /\ task' = [task EXCEPT ![h] = Finish(h, "add_comment")]
    /\ UNCHANGED <<cacheVars, dbVars, faults, cfg>>

\* an update "comment:skip:<provider_id>:<stars>" arrives: save_rating is
\* called with comment None
StartSkip(h) ==
    \E u \in cfg.actors, provider_id \in Providers, rating_value \in cfg.values :
        /\ FreeSlot(h)
        /\ cfg.also = "rating"
        /\ task' = [task EXCEPT ![h] =
                [NewTask("skip", "sr_get", u, provider_id)
                    EXCEPT !.val = rating_value, !.cmt = None]]
        /\ UNCHANGED <<cacheVars, dbVars, faults, fsm, cfg>>

\* a message arrives while the user's state is waiting_for_comment:
\* process_comment reads provider_id and rating from the state data and
\* passes message.text as the comment
StartComment(h) ==
    \E u \in cfg.actors, text \in cfg.texts :
        /\ FreeSlot(h)
        /\ cfg.also = "rating"
        /\ fsm[u].state = "waiting_for_comment"
        /\ task' = [task EXCEPT ![h] =
                [NewTask("comment", "sr_get", u, fsm[u].provider_id)
                    EXCEPT !.val = fsm[u].rating, !.cmt = text]]
        /\ UNCHANGED <<cacheVars, dbVars, faults, fsm, cfg>>

\* an update "rating:cancel" arrives
StartCancel(h) ==
    \E u \in cfg.actors :
        /\ FreeSlot(h)
        /\ cfg.also = "rating"
        /\ task' = [task EXCEPT ![h] = NewTask("cancel", "st_clear", u, 0)]
        /\ UNCHANGED <<cacheVars, dbVars, faults, fsm, cfg>>

\* the rows select(Rating).where(user_id, provider_id) returns
RowsOf(u, p) == {r \in ratings : r.user_id = u /\ r.provider_id = p}

\* RatingRepository.get_user_rating: scalar_one_or_none() gives the id of
\* the one row, 0 for None, and raises (TooMany) when several rows match
TooMany == -1
get_user_rating(u, p) ==
    IF RowsOf(u, p) = {} THEN 0
    ELSE IF Cardinality(RowsOf(u, p)) > 1 THEN TooMany
    ELSE (CHOOSE r \in RowsOf(u, p) : TRUE).id

\* save_rating: existing_rating = get_user_rating(user_id, provider_id)
SaveGet(h) ==
    /\ At(h, "sr_get")
    /\ LET row == get_user_rating(task[h].user, task[h].arg)
       IN  task' = [task EXCEPT ![h] =
                IF row = TooMany THEN Finish(h, "raised")
                ELSE [task[h] EXCEPT !.pc = "cu_get", !.existing = row # 0]]
    /\ UNCHANGED <<cacheVars, dbVars, faults, fsm, cfg>>

\* create_or_update: existing_rating = get_user_rating(user_id, provider_id)
UpsertGet(h) ==
    /\ At(h, "cu_get")
    /\ LET row == get_user_rating(task[h].user, task[h].arg)
       IN  task' = [task EXCEPT ![h] =
                IF row = TooMany THEN Finish(h, "raised")
                ELSE [task[h] EXCEPT !.pc = "cu_commit", !.found = row]]
    /\ UNCHANGED <<cacheVars, dbVars, faults, fsm, cfg>>

\* faulty variant: the table without check_rating_range
CheckRatingRangeMissing(rating) == TRUE

\* CheckConstraint("rating >= 1 AND rating <= 5", name="check_rating_range")
CheckRatingRange(rating) == rating >= 1 /\ rating <= 5

\* faulty variant: idx_rating_user_provider declared without unique=True
UniqueUserProviderMissing(u, p) == TRUE

\* Index("idx_rating_user_provider", "user_id", "provider_id", unique=True):
\* whether a new row for the pair may be inserted
UniqueUserProvider(u, p) == RowsOf(u, p) = {}

\* faulty variant: the update also stamps created_at
UpdatedRowRestamped(r, rating, comment) ==
    [r EXCEPT !.rating = rating, !.comment = comment,
              !.created_at = utc_day, !.updated_at = utc_day]

\* create_or_update: existing_rating.rating = rating; .comment = comment;
\* .updated_at = datetime.utcnow()
UpdatedRow(r, rating, comment) ==
    [r EXCEPT !.rating = rating, !.comment = comment, !.updated_at = utc_day]

\* ratings.id is a serial primary key: a new row gets an id above all others
NextId ==
    IF ratings = {} THEN 1
    ELSE 1 + (CHOOSE i \in {r.id : r \in ratings} :
                    \A r \in ratings : r.id <= i)

\* create_or_update: Rating(user_id, provider_id, rating, comment) with the
\* column defaults: a new id, is_moderated True, created_at = updated_at = now
NewRow(u, p, rating, comment) ==
    [id |-> NextId, user_id |-> u, provider_id |-> p,
     rating |-> rating, comment |-> comment, is_moderated |-> TRUE,
     created_at |-> utc_day, updated_at |-> utc_day]

\* create_or_update: session.commit() of the update of the row found, or of
\* the insert of a new row; a commit that violates check_rating_range or
\* idx_rating_user_provider raises IntegrityError and writes nothing
UpsertCommit(h) ==
    /\ At(h, "cu_commit")
    /\ LET u == task[h].user
           p == task[h].arg
       IN  IF ~CheckRatingRange(task[h].val)
           THEN /\ UNCHANGED ratings
                /\ task' = [task EXCEPT ![h] = Finish(h, "raised")]
           ELSE IF task[h].found # 0
           THEN /\ ratings' = {IF r.id = task[h].found
                               THEN UpdatedRow(r, task[h].val, task[h].cmt)
                               ELSE r : r \in ratings}
                /\ task' = [task EXCEPT ![h] = Goto(h, "ur_select")]
           ELSE IF ~UniqueUserProvider(u, p)
           THEN /\ UNCHANGED ratings
                /\ task' = [task EXCEPT ![h] = Finish(h, "raised")]
           ELSE /\ ratings' = ratings \cup {NewRow(u, p, task[h].val, task[h].cmt)}
                /\ task' = [task EXCEPT ![h] = Goto(h, "ur_select")]
    /\ UNCHANGED <<cacheVars, is_active, contact_count, view_count, loc_active,
                   contacts, favorites, average_rating, rating_count, utc_day,
                   faults, users, fsm, cfg>>

\* faulty variant: the aggregate query without the is_moderated condition
ModeratedAll(p) == {r \in ratings : r.provider_id = p}

\* update_rating: where(Rating.provider_id == provider_id,
\* Rating.is_moderated == True)
Moderated(p) == {r \in ratings : r.provider_id = p /\ r.is_moderated}

\* sum of the rating column over a set of rows
RECURSIVE Stars(_)
Stars(S) ==
    IF S = {} THEN 0
    ELSE LET r == CHOOSE row \in S : TRUE
         IN  r.rating + Stars(S \ {r})

\* faulty variant: the average taken by integer division
AverageTruncated(S) ==
    IF S = {} THEN 0 ELSE (Stars(S) \div Cardinality(S)) * AvgScale

\* func.avg(Rating.rating) and float(avg_rating or 0), in 1/AvgScale of a
\* star: avg over no rows is NULL, hence 0
Average(S) == IF S = {} THEN 0 ELSE (Stars(S) * AvgScale) \div Cardinality(S)

\* ProviderRepository.update_rating(provider_id) is called
StartRecompute(h) ==
    \E provider_id \in Providers :
        /\ FreeSlot(h)
        /\ cfg.also = "recompute"
        /\ task' = [task EXCEPT ![h] = NewTask("recompute", "ur_select", 0, provider_id)]
        /\ UNCHANGED <<cacheVars, dbVars, faults, fsm, cfg>>

\* update_rating: SELECT avg(rating), count(id) ... is_moderated
RecomputeSelect(h) ==
    /\ At(h, "ur_select")
    /\ \E fail \in FailChoices :
        LET rows == Moderated(task[h].arg)
        IN  /\ Spend(fail)
            /\ task' = [task EXCEPT ![h] =
                    IF fail THEN Finish(h, "raised")
                    ELSE [task[h] EXCEPT !.pc = "ur_update",
                            !.cnt = Cardinality(rows), !.avg = Average(rows)]]
    /\ UNCHANGED <<cacheVars, dbVars, fsm, cfg>>

\* faulty variant: the two columns written by two statements, the failure
\* falling between them
WriteAggregateSplit(p, avg, cnt, fail) ==
    /\ average_rating' = [average_rating EXCEPT ![p] = avg]
    /\ rating_count' = IF fail THEN rating_count
                       ELSE [rating_count EXCEPT ![p] = cnt]

\* update_rating: one UPDATE ... .values(average_rating=, rating_count=) and
\* its commit; a statement or commit that raises writes neither column
WriteAggregate(p, avg, cnt, fail) ==
    IF fail
    THEN UNCHANGED <<average_rating, rating_count>>
    ELSE /\ average_rating' = [average_rating EXCEPT ![p] = avg]
         /\ rating_count' = [rating_count EXCEPT ![p] = cnt]

\* update_rating: UPDATE providers SET average_rating, rating_count
RecomputeUpdate(h) ==
    /\ At(h, "ur_update")
    /\ \E fail \in FailChoices :
        /\ Spend(fail)
        /\ WriteAggregate(task[h].arg, task[h].avg, task[h].cnt, fail)
        /\ task' = [task EXCEPT ![h] =
                IF fail THEN Finish(h, "raised")
                ELSE IF task[h].kind = "recompute" THEN Finish(h, "recomputed")
                ELSE Goto(h, "st_clear")]
    /\ UNCHANGED <<cacheVars, is_active, contact_count, view_count, loc_active,
                   contacts, favorites, ratings, utc_day, users, fsm, cfg>>

\* 00:00 UTC passes: today_start of count_user_ratings_today moves on
Midnight ==
    /\ utc_day < cfg.days
    /\ utc_day' = utc_day + 1
    /\ UNCHANGED <<cacheVars, is_active, contact_count, view_count, loc_active,
                   contacts, favorites, ratings, average_rating, rating_count,
                   task, faults, users, fsm, cfg>>

\* state.clear() after save_rating, or on rating:cancel
StateClear(h) ==
    /\ At(h, "st_clear")
    /\ fsm' = [fsm EXCEPT ![task[h].user] = NoDialogue]
    /\ task' = [task EXCEPT ![h] =
            IF task[h].kind = "cancel" THEN Finish(h, "cancelled")
            ELSE IF task[h].existing THEN Finish(h, "rating_updated")
            ELSE Finish(h, "rating_saved")]
    /\ UNCHANGED <<cacheVars, dbVars, faults, cfg>>

\* ---------------------------------------------------------- specifications
\* the bot after startup: Redis connected and empty, the seeded providers
\* active, no update in flight
StartIn(scheduling, rows, accounts, dialogues) ==
    /\ browsing_state = [u \in Users |-> NoState]
    /\ browsing_ttl = [u \in Users |-> 0]
    /\ selected_location = [u \in Users |-> 0]
    /\ location_ttl = [u \in Users |-> 0]
    /\ ratelimit = [u \in Users |-> 0]
    /\ ratelimit_ttl = [u \in Users |-> 0]
    /\ is_active = [p \in Providers |-> TRUE]
    /\ contact_count = [p \in Providers |-> 0]
    /\ view_count = [p \in Providers |-> 0]
    /\ loc_active = [l \in Locations |-> TRUE]
    /\ contacts = <<>>
    /\ favorite_ids = [u \in Users |-> <<>>]
    /\ favorite_ids_ttl = [u \in Users |-> 0]
    /\ favorite_index = [u \in Users |-> 0]
    /\ favorite_index_ttl = [u \in Users |-> 0]
    /\ favorites = [u \in Users |-> <<>>]
    /\ ratings = rows
    /\ average_rating = [p \in Providers |->
            Average({r \in rows : r.provider_id = p})]
    /\ rating_count = [p \in Providers |->
            Cardinality({r \in rows : r.provider_id = p})]
    /\ utc_day = 0
    /\ users = {NewUser(u) : u \in accounts}
    /\ fsm = dialogues
    /\ task = [h \in Slots |-> IdleTask]
    /\ faults = 0
    /\ cfg = scheduling

\* ... with no dialogue in progress (MemoryStorage starts empty)
StartFrom(scheduling, rows, accounts) ==
    StartIn(scheduling, rows, accounts, [u \in Users |-> NoDialogue])

\* ... with an account for every user
StartWith(scheduling, rows) == StartFrom(scheduling, rows, Users)

\* ... with an empty ratings table
Start(scheduling) == StartWith(scheduling, {})

BrowseStep(h) ==
    \/ StartNav(h) \/ NavGet(h) \/ ShowGet(h) \/ UbiGet(h) \/ UbiSet(h)
    \/ ShowView(h) \/ StartMenu(h) \/ BrowseStart(h)
    \/ StartLocation(h) \/ LocationSelect(h)
    \/ StartCategory(h) \/ CategoryGetLocation(h) \/ CategoryQuery(h)
    \/ CategorySet(h)

ContactStep(h) ==
    \/ StartContact(h) \/ ContactCheck(h) \/ ContactCreate(h)
    \/ ContactCount(h) \/ RateIncr(h) \/ RateExpire(h)

FavoriteStep(h) ==
    \/ StartFavorite(h) \/ FavoriteGet(h) \/ FavoriteCommit(h)
    \/ FavoriteWrite(h) \/ StartFavorites(h)
    \/ FavoritesQuery(h) \/ FavoritesSetIds(h) \/ FavoritesSetIndex(h)
    \/ StartFavNav(h) \/ FavNavIndex(h) \/ FavNavIds(h)
    \/ ShowFavoriteGet(h) \/ ShowFavoriteSet(h) \/ ShowFavoriteView(h)

RatingStep(h) ==
    \/ StartRate(h) \/ RateCheck(h) \/ StartRatingSelect(h) \/ RatingSelect(h)
    \/ StartSkip(h) \/ StartComment(h) \/ StartCancel(h)
    \/ SaveGet(h) \/ UpsertGet(h) \/ UpsertCommit(h)
    \/ RecomputeSelect(h) \/ RecomputeUpdate(h) \/ StateClear(h)

\* updates handled one at a time, Redis never failing
Sequential(views, contact_cap) ==
    [inflight |-> 1, faults |-> 0, exclusive |-> TRUE,
     views |-> views, contacts |-> contact_cap, also |-> "none",
     values |-> RatingValues, texts |-> {"good"}, days |-> 0,
     actors |-> Actors]

\* the dispatcher handles updates as concurrent tasks (handle_as_tasks)
Concurrent(exclusive, fault_cap, views, contact_cap) ==
    [inflight |-> MaxInFlight, faults |-> fault_cap, exclusive |-> exclusive,
     views |-> views, contacts |-> contact_cap, also |-> "none",
     values |-> RatingValues, texts |-> {"good"}, days |-> 0,
     actors |-> Actors]

\* the browsing flow, one update at a time, while the clock runs and the
\* admin toggles providers
Init == Start(Sequential(MaxViews, 0))

Next ==
    \/ \E h \in Slots : BrowseStep(h) \/ Reply(h)
    \/ Tick \/ ToggleProvider

Spec == Init /\ [][Next]_vars

\* the contact handler alone, one update at a time, Redis never failing
InitContact == Start(Sequential(0, MaxContacts))

NextContact ==
    \/ \E h \in Slots : ContactStep(h) \/ Reply(h)
    \/ Tick

SpecContact == InitContact /\ [][NextContact]_vars

\* concurrent contact handlers, Redis commands may fail
InitRate == Start(Concurrent(FALSE, MaxFaults, 0, MaxContacts))

SpecRate == InitRate /\ [][NextContact]_vars

\* browsing one update at a time while the cache may fail
InitBrowseOutage == Start([Sequential(MaxViews, 0) EXCEPT !.faults = MaxFaults])

SpecBrowseOutage == InitBrowseOutage /\ [][Next]_vars

\* contacts one at a time while the cache may fail
InitOutage == Start([Sequential(0, MaxContacts) EXCEPT !.faults = MaxFaults])

SpecOutage == InitOutage /\ [][NextContact]_vars

\* concurrent browsing handlers of one user; a filter selection runs only
\* while no other handler of the user is in flight
InitNavSame == Start(Concurrent(TRUE, 0, MaxViews, 0))

SpecNavSame == InitNavSame /\ [][Next]_vars

\* concurrent browsing handlers of one user, filter selections included,
\* all within the life of the keys
InitNav == Start(Concurrent(FALSE, 0, MaxViews, 0))

NextNav ==
    \/ \E h \in Slots : BrowseStep(h) \/ Reply(h)
    \/ ToggleProvider

SpecNav == InitNav /\ [][NextNav]_vars

\* every user-facing handler, updates handled one at a time: the browsing
\* flow next to one other feature (contact, rating or favorites) per run
Alongside(feature) ==
    [Sequential(MaxViews - 1,
                IF feature = "contact" THEN CONTACT_LIMIT_PER_HOUR ELSE 0)
        EXCEPT !.also = feature, !.values = {5}]

InitAll == \E feature \in {"contact", "rating", "favorite"} : Start(Alongside(feature))

NextAll ==
    \/ \E h \in Slots :
        \/ BrowseStep(h) \/ ContactStep(h) \/ FavoriteStep(h) \/ RatingStep(h)
        \/ Reply(h)
    \/ Tick \/ ToggleLocation

SpecAll == InitAll /\ [][NextAll]_vars

\* the rating flow, one update at a time, the callbacks carrying any of
\* RatingInputs, while UTC midnights pass
InitRating ==
    Start([Sequential(0, 0) EXCEPT !.also = "rating", !.values = RatingInputs,
                                   !.texts = Texts, !.days = MaxDays])

NextRating ==
    \/ \E h \in Slots : RatingStep(h) \/ Reply(h)
    \/ Midnight

SpecRating == InitRating /\ [][NextRating]_vars

\* rating updates of one user handled as concurrent tasks within one day
InitRatingRace ==
    Start([Concurrent(FALSE, 0, 0, 0) EXCEPT !.also = "rating", !.values = {5}])

NextRatingToday == \E h \in Slots : RatingStep(h) \/ Reply(h)

SpecRatingRace == InitRatingRace /\ [][NextRatingToday]_vars

\* "favorite:" and "unfavorite:" updates of one user handled as concurrent
\* tasks
InitFavoriteRace == Start([Concurrent(FALSE, 0, 0, 0) EXCEPT !.also = "favorite"])

NextFavoriteWrite ==
    \E h \in Slots :
        \/ StartFavorite(h) \/ FavoriteGet(h) \/ FavoriteCommit(h)
        \/ FavoriteWrite(h) \/ Reply(h)

SpecFavoriteRace == InitFavoriteRace /\ [][NextFavoriteWrite]_vars

\* "comment:skip:" updates of two users handled as concurrent tasks
InitRatingPair ==
    Start([Concurrent(FALSE, 0, 0, 0) EXCEPT !.also = "rating", !.values = {5},
                                            !.actors = Users])

NextRatingPair ==
    \E h \in Slots :
        \/ StartSkip(h) \/ SaveGet(h) \/ UpsertGet(h) \/ UpsertCommit(h)
        \/ RecomputeSelect(h) \/ RecomputeUpdate(h) \/ StateClear(h)
        \/ Reply(h)

SpecRatingPair == InitRatingPair /\ [][NextRatingPair]_vars

\* a ratings table: each (user, provider) pair has no row (rating 0) or one
\* row, as create_or_update stored it, whose is_moderated column may since
\* have been cleared in the database
SeedChoices == {<<0, TRUE>>} \cup (RatingValues \X BOOLEAN)

Table(f) ==
    {[id |-> (pair[1] - 1) * NumProviders + pair[2],
      user_id |-> pair[1], provider_id |-> pair[2],
      rating |-> f[pair][1], comment |-> None, is_moderated |-> f[pair][2],
      created_at |-> 0, updated_at |-> 0] :
        pair \in {q \in Users \X Providers : f[q][1] # 0}}

\* the rating flow, one update at a time, over a table that holds the valid
\* and moderated rows of another user
InitRatingShared ==
    \E g \in [Providers -> {0} \cup RatingValues] :
        StartWith([Sequential(0, 0) EXCEPT !.also = "rating"],
                  Table([q \in Users \X Providers |->
                            IF q[1] \in Actors THEN <<0, TRUE>>
                            ELSE <<g[q[2]], TRUE>>]))

SpecRatingShared == InitRatingShared /\ [][NextRatingToday]_vars

\* ... while statements of update_rating may fail
InitRatingOutage ==
    \E g \in [Providers -> {0} \cup RatingValues] :
        StartWith([Sequential(0, 0) EXCEPT !.also = "rating", !.faults = MaxFaults],
                  Table([q \in Users \X Providers |->
                            IF q[1] \in Actors THEN <<0, TRUE>>
                            ELSE <<g[q[2]], TRUE>>]))

SpecRatingOutage == InitRatingOutage /\ [][NextRatingToday]_vars

\* update_rating applied to the providers of any such table
InitRecompute ==
    \E f \in [Users \X Providers -> SeedChoices] :
        StartWith([Sequential(0, 0) EXCEPT !.also = "recompute"], Table(f))

NextRecompute ==
    \E h \in Slots :
        \/ StartRecompute(h) \/ RecomputeSelect(h) \/ RecomputeUpdate(h)
        \/ Reply(h)

SpecRecompute == InitRecompute /\ [][NextRecompute]_vars

\* -------------------------------------------------------------- properties
Stored(u) == browsing_ttl[u] > 0
Snapshot(u) == browsing_state[u].provider_ids
Index(u) == browsing_state[u].current_index
Steps(h, pc) == task[h].pc = pc /\ task'[h].pc # pc
Ends(h) == task[h].pc = "reply" /\ task'[h].pc = "idle"
OneHour == TicksPerHour

\* C1: with updates handled one after another, a stored browsing state has a
\* snapshot of n >= 1 ids and its current_index stays in [0, n-1] through any
\* sequence of browse:next and browse:prev.
C1_IndexInBounds ==
    \A u \in Users :
        Stored(u) => /\ Len(Snapshot(u)) >= 1
                     /\ Index(u) \in 0..(Len(Snapshot(u)) - 1)

\* the user went forward and came back: browse:prev displayed the first
\* provider of a full snapshot
C1_Witness ==
    \E h \in Slots :
        /\ task[h].kind = "prev" /\ task[h].pc = "reply" /\ task[h].out = "shown"
        /\ Stored(task[h].user)
        /\ Len(Snapshot(task[h].user)) = NumProviders
        /\ Index(task[h].user) = 0

\* C3: browse:next at the last index and browse:prev at index 0 do nothing:
\* the handler answers without calling show_provider, the stored state (index
\* included) and the view counters are unchanged, nothing is raised.
AtBoundary(kind, state) ==
    IF kind = "next"
    THEN state.current_index = Len(state.provider_ids) - 1
    ELSE state.current_index = 0

C3_BoundaryNoop ==
    [][\A h \in Slots :
        /\ (Steps(h, "nav_get") /\ Stored(task[h].user)
                /\ AtBoundary(task[h].kind, browsing_state[task[h].user]))
            => /\ task'[h].pc = "reply"
               /\ task'[h].out = "noop"
               /\ UNCHANGED <<browseVars, view_count>>
        /\ (Ends(h) /\ task[h].out = "noop")
            => UNCHANGED <<browseVars, view_count>>
      ]_vars

\* browse:next answered as a no-op at the last index of a snapshot of two or more
C3_Witness ==
    \E h \in Slots :
        /\ task[h].kind = "next" /\ task[h].pc = "reply" /\ task[h].out = "noop"
        /\ Stored(task[h].user)
        /\ Len(Snapshot(task[h].user)) >= 2
        /\ Index(task[h].user) = Len(Snapshot(task[h].user)) - 1

\* C4: browse:next / browse:prev of a user without a stored browsing state
\* (never started, cleared or expired) ends as "no state": no state is
\* created, no provider is displayed, no view counter changes.
C4_NoStateNotFound ==
    [][\A h \in Slots :
        /\ (Steps(h, "nav_get") /\ ~Stored(task[h].user))
            => /\ task'[h].pc = "reply"
               /\ task'[h].out = "no_state"
               /\ task'[h].shown = 0
               /\ UNCHANGED <<browseVars, view_count>>
        /\ (Ends(h) /\ task[h].out = "no_state")
            => UNCHANGED <<browseVars, view_count>>
      ]_vars

\* a navigation answered "no state" after the user's earlier state, whose
\* providers had been displayed, is gone
C4_Witness ==
    \E h \in Slots :
        /\ task[h].kind \in {"next", "prev"}
        /\ task[h].pc = "reply" /\ task[h].out = "no_state"
        /\ ~Stored(task[h].user)
        /\ \E p \in Providers : view_count[p] > 0

\* C5: a filter selection with a non-empty result replaces the user's browsing
\* state as a whole: the stored dict is exactly {the selected location, the
\* category, the ids get_filtered returned in their order, current_index 0,
\* no filters} with one hour to live, and this is still the stored state when
\* the handler has displayed the first provider.
Selected(h) ==
    [location_id |-> task[h].loc, category_id |-> task[h].arg,
     provider_ids |-> task[h].ids, current_index |-> 0, filters |-> <<>>]

C5_SelectionReplaces ==
    /\ [](\A h \in Slots :
            (task[h].kind = "category" /\ task[h].pc = "reply"
                /\ task[h].out = "shown" /\ Stored(task[h].user))
            => browsing_state[task[h].user] = Selected(h))
    /\ [][\A h \in Slots :
            /\ Steps(h, "cat_query") /\ task'[h].pc = "cat_set"
                => /\ task'[h].ids \in get_filtered(task[h].loc, task[h].arg)
                   /\ task'[h].ids # <<>>
            /\ Steps(h, "cat_set")
                => /\ browsing_state'[task[h].user] = Selected(h)
                   /\ browsing_ttl'[task[h].user] = OneHour
         ]_vars

\* a selection is about to overwrite a state that is partly expired, holds
\* another snapshot and stands at a later index
C5_Witness ==
    \E h \in Slots :
        /\ task[h].pc = "cat_set"
        /\ Stored(task[h].user)
        /\ browsing_ttl[task[h].user] < OneHour
        /\ Snapshot(task[h].user) # task[h].ids
        /\ Index(task[h].user) = 1

\* C7: every successful read of the browsing state by a navigation handler
\* (a boundary no-op included) resets the state's remaining time to the full
\* session TTL.
C7_SlidingExpiry ==
    [][\A h \in Slots :
        (Steps(h, "nav_get") /\ Stored(task[h].user))
            => browsing_ttl'[task[h].user] = OneHour
      ]_vars

\* C2: two or more browse:next / browse:prev handlers of one user running
\* concurrently over the same snapshot, their reads and writes interleaved in
\* any order: the stored current_index stays in [0, n-1] and no handler raises
\* or finds its index out of range.
C2_ConcurrentInBounds ==
    /\ \A u \in Users :
        Stored(u) => Index(u) >= 0 /\ Index(u) < Len(Snapshot(u))
    /\ \A h \in Slots : task[h].out \notin {"raised", "range"}

\* a double tap: two browse:next handlers both read index 0, both displayed a
\* provider, and the index moved by one
C2_Witness ==
    \E g, h \in Slots :
        /\ g # h
        /\ task[g].user = task[h].user
        /\ task[g].kind = "next" /\ task[g].pc = "reply" /\ task[g].out = "shown"
        /\ task[h].kind = "next" /\ task[h].pc = "reply" /\ task[h].out = "shown"
        /\ Stored(task[h].user)
        /\ Index(task[h].user) = 1

\* C6: while a browsing state exists its provider_ids snapshot only changes
\* when a filter selection of that user stores a new one: no other step (a
\* navigation write, a provider toggled by the admin) alters it.
C6_SnapshotImmutable ==
    [][\A u \in Users :
        (Stored(u) /\ browsing_ttl'[u] > 0
            /\ browsing_state'[u].provider_ids # Snapshot(u))
        => \E h \in Slots : task[h].user = u /\ Steps(h, "cat_set")
      ]_vars

\* C9: with limit L = CONTACT_LIMIT_PER_HOUR and contact requests handled one
\* after another: a request is rejected ("limit", no ContactRecord) exactly
\* when the user's counter has reached L, otherwise it goes on to record the
\* contact; every recorded contact adds one to the counter, which therefore
\* never exceeds L within a window; the increment that follows an expired
\* window leaves the counter at 1 with a full window ahead.
C9_ContactLimit ==
    /\ [](\A u \in Users : ratelimit[u] <= CONTACT_LIMIT_PER_HOUR)
    /\ [][\A h \in Slots :
            /\ Steps(h, "ct_check")
                => /\ contacts' = contacts
                   /\ IF ratelimit[task[h].user] >= CONTACT_LIMIT_PER_HOUR
                      THEN task'[h].pc = "reply" /\ task'[h].out = "limit"
                      ELSE task'[h].pc = "ct_create"
            /\ (Ends(h) /\ task[h].out = "limit") => contacts' = contacts
            /\ Steps(h, "ct_create") /\ task[h].arg \in Providers
                => /\ Len(contacts') = Len(contacts) + 1
                   /\ task'[h].pc = "ct_count"
            /\ Steps(h, "rl_incr")
                => ratelimit'[task[h].user] = ratelimit[task[h].user] + 1
            /\ Steps(h, "rl_expire")
                => /\ ratelimit'[task[h].user] = 1
                   /\ ratelimit_ttl'[task[h].user] = OneHour
         ]_vars

\* the (L+1)th request of a window is answered "limit": L contacts are
\* recorded, the counter stands at L and part of the window has passed
C9_Witness ==
    \E h \in Slots :
        /\ task[h].kind = "contact" /\ task[h].pc = "reply" /\ task[h].out = "limit"
        /\ ratelimit[task[h].user] = CONTACT_LIMIT_PER_HOUR
        /\ ratelimit_ttl[task[h].user] \in 1..(OneHour - 1)
        /\ Len(contacts) = CONTACT_LIMIT_PER_HOUR

\* C10: a rate-limit counter never exists without an expiry.
C10_CounterHasExpiry ==
    \A u \in Users : ratelimit[u] > 0 => ratelimit_ttl[u] # NoExpiry

\* C8: what may touch a stored browsing state.  Contact, rating and favorite
\* handlers and the location step of the menu leave it as it is; its value
\* changes only in a navigation write or a new filter selection; it ceases to
\* exist only by expiry or when browse_start clears it, which browse_start
\* does whenever at least one location is active.
OtherKinds ==
    {"contact", "rate", "rating", "skip", "comment", "cancel",
     "favorite", "unfavorite", "favorites", "fav_next", "fav_prev", "location"}

Acts(h) == task'[h] # task[h]

\* handlers that are not part of the cursor leave the state alone
OthersKeepState ==
    \A h \in Slots :
        (Acts(h) /\ (task[h].kind \in OtherKinds \/ task'[h].kind \in OtherKinds))
        => UNCHANGED browseVars

\* the value of a stored state changes only in a navigation write or a selection
MutatedByNavigation ==
    \A u \in Users :
        (Stored(u) /\ browsing_ttl'[u] > 0 /\ browsing_state'[u] # browsing_state[u])
        => \E h \in Slots :
            /\ task[h].user = u
            /\ \/ Steps(h, "ubi_set") /\ task[h].kind \in {"next", "prev"}
               \/ Steps(h, "cat_set")

ExpiresNow(u) == browsing_ttl[u] = 1 /\ task' = task

C8_Lifecycle ==
    [][/\ OthersKeepState
       /\ MutatedByNavigation
       /\ \A h \in Slots :
            Steps(h, "menu")
            => IF \E l \in Locations : loc_active[l]
               THEN /\ browsing_ttl'[task[h].user] = 0
                    /\ \A u \in Users \ {task[h].user} :
                        /\ browsing_ttl'[u] = browsing_ttl[u]
                        /\ browsing_state'[u] = browsing_state[u]
               ELSE UNCHANGED browseVars
       /\ \A u \in Users :
            (Stored(u) /\ browsing_ttl'[u] = 0)
            => \/ ExpiresNow(u)
               \/ \E h \in Slots : task[h].user = u /\ Steps(h, "menu")
      ]_vars

\* C8 as stated: the state ceases to exist only by expiry, and starting the
\* browse menu leaves it unchanged.
C8_OnlyExpiryOrReplacement ==
    [][/\ OthersKeepState
       /\ MutatedByNavigation
       /\ \A h \in Slots : Steps(h, "menu") => UNCHANGED browseVars
       /\ \A u \in Users : (Stored(u) /\ browsing_ttl'[u] = 0) => ExpiresNow(u)
      ]_vars

\* the favorites list was opened and a favorite displayed while the user's
\* browsing state, partly expired, stands at its second provider
C8_Witness ==
    \E h \in Slots :
        /\ task[h].kind = "favorites" /\ task[h].pc = "reply" /\ task[h].out = "shown"
        /\ Stored(task[h].user)
        /\ browsing_ttl[task[h].user] < OneHour
        /\ Index(task[h].user) = 1

(***************************************************************************)
(* Rate-limit counters                                                     *)
(***************************************************************************)

\* C11: reading a rate-limit counter is read-only: the step that checks the
\* contact limit never creates a counter, never changes a count and never
\* changes or extends the expiry of a window, for any user, whether or not
\* the read succeeds.
C11_PeekReadOnly ==
    [][\A h \in Slots :
        Steps(h, "ct_check") =>
            /\ ratelimit' = ratelimit
            /\ ratelimit_ttl' = ratelimit_ttl]_vars

\* a check has just let a contact through while a counter existed whose
\* window had partly elapsed; counter and window are as they were
C11_Witness ==
    \E h \in Slots :
        /\ task[h].kind = "contact"
        /\ task[h].pc = "ct_create"
        /\ ratelimit[task[h].user] = 1
        /\ ratelimit_ttl[task[h].user] \in 1..(OneHour - 1)

\* C12: a user's counter never decreases while its window exists; it takes
\* the value 1 only by the first increment after the key was absent (never
\* created or expired); the key disappears only by expiry of its window; and
\* the expiry of a window only counts down, except that the increment that
\* created the key then gives it a full window.
C12_CounterMonotone ==
    [][\A u \in Users :
        /\ ratelimit'[u] < ratelimit[u]
            => /\ ratelimit'[u] = 0
               /\ Expired(ratelimit_ttl, u)
               /\ \A h \in Slots : task'[h] = task[h]
        /\ ratelimit'[u] > ratelimit[u]
            => /\ ratelimit'[u] = ratelimit[u] + 1
               /\ \E h \in Slots : Steps(h, "rl_incr") /\ task[h].user = u
        /\ (ratelimit[u] > 0 /\ ratelimit'[u] > 0 /\ ratelimit_ttl'[u] # ratelimit_ttl[u])
            => \/ ratelimit_ttl[u] > 1 /\ ratelimit_ttl'[u] = ratelimit_ttl[u] - 1
               \/ /\ ratelimit_ttl[u] = NoExpiry
                  /\ ratelimit_ttl'[u] = OneHour
                  /\ \E h \in Slots : Steps(h, "rl_expire") /\ task[h].user = u
      ]_vars

\* a second window: the counter is back at 1 with a full window after
\* earlier contacts of the same user were counted and their window expired
C12_Witness ==
    \E u \in Users :
        /\ ratelimit[u] = 1
        /\ ratelimit_ttl[u] = OneHour
        /\ Len(contacts) >= 2
        /\ \A i \in 1..Len(contacts) : contacts[i].user_id = u

\* C13: the contact limit fails closed: a limit check during which the cache
\* is unavailable denies the contact, that is, the request ends there and
\* never reaches the steps that create the ContactRecord and increment
\* contact_count.
C13_FailClosed ==
    [][\A h \in Slots :
        (Steps(h, "ct_check") /\ faults' # faults)
            => /\ task'[h].pc = "reply"
               /\ task'[h].out = "limit"
               /\ contacts' = contacts
               /\ contact_count' = contact_count]_vars

(***************************************************************************)
(* Cache failures while browsing                                           *)
(***************************************************************************)

\* C14: the browsing cursor fails soft: whenever a read of the session cache
\* fails inside a navigation handler (in the handler itself, in show_provider
\* or in update_browsing_index), the handler goes on as if there were no
\* state: it ends without raising and without displaying a provider, and the
\* stored BrowsingState and its expiry stay as they are.
C14_FailSoft ==
    [][\A h \in Slots :
        (/\ task[h].kind \in {"next", "prev"}
         /\ task[h].pc \in {"nav_get", "sp_get", "ubi_get"}
         /\ task'[h].pc # task[h].pc
         /\ faults' # faults)
            => /\ task'[h].pc = "reply"
               /\ task'[h].out \in {"no_state", "lost"}
               /\ task'[h].shown = 0
               /\ browsing_state' = browsing_state
               /\ browsing_ttl' = browsing_ttl]_vars

(***************************************************************************)
(* Ratings                                                                 *)
(***************************************************************************)

\* the ratings rows a user created on a UTC day
CreatedOn(u, day) == {r \in ratings : r.user_id = u /\ r.created_at = day}

\* C15: whatever rating updates a user sends (rate:, rating:, comment:skip:,
\* comment messages), the RatingRecords the user created within one UTC day
\* never number more than RATING_LIMIT_PER_DAY; each day is counted afresh.
C15_RatingLimit ==
    \A u \in Users : \A day \in 0..MaxDays :
        Cardinality(CreatedOn(u, day)) <= RATING_LIMIT_PER_DAY

\* C16: the ratings table never holds two rows for the same (user, provider):
\* a second rating of the pair updates the row there is, and of two
\* concurrent upserts whose lookups both found no row only the first insert
\* is committed, the second one raising and writing nothing.
C16_OneRatingPerPair ==
    /\ [](\A u \in Users, p \in Providers : Cardinality(RowsOf(u, p)) <= 1)
    /\ [][\A h \in Slots :
            (/\ Steps(h, "cu_commit")
             /\ task[h].found = 0
             /\ RowsOf(task[h].user, task[h].arg) # {})
                => /\ ratings' = ratings
                   /\ task'[h].out = "raised"]_vars

\* two upserts of one pair ran concurrently, both lookups found no row; one
\* insert was committed and the other raised: the pair has one row
C16_Witness ==
    \E h \in Slots :
        /\ task[h].kind \in {"skip", "comment"}
        /\ task[h].pc = "reply"
        /\ task[h].out = "raised"
        /\ task[h].found = 0
        /\ Cardinality(RowsOf(task[h].user, task[h].arg)) = 1

\* C17: a re-rating (an upsert whose lookup found the pair's row) rewrites
\* that row in place: id, user, provider, moderated flag and created_at stay
\* as they were, rating and comment become exactly the arguments given (a
\* re-rating without a comment stores None over an old comment), only
\* updated_at may change besides, and every other row stays untouched.
C17_ReRatingInPlace ==
    [][\A h \in Slots :
        (/\ Steps(h, "cu_commit")
         /\ task[h].found # 0
         /\ task'[h].out # "raised")
            => \E old \in ratings : \E new \in ratings' :
                /\ old.id = task[h].found
                /\ ratings' \ {new} = ratings \ {old}
                /\ new.id = old.id
                /\ new.user_id = old.user_id
                /\ new.provider_id = old.provider_id
                /\ new.is_moderated = old.is_moderated
                /\ new.created_at = old.created_at
                /\ new.rating = task[h].val
                /\ new.comment = task[h].cmt
                /\ new.updated_at = utc_day]_vars

\* a row created with a comment on one day has been re-rated on a later day
\* without one: the comment is None, created_at is the earlier day
C17_Witness ==
    \E h \in Slots : \E r \in ratings :
        /\ task[h].kind = "skip"
        /\ task[h].pc = "ur_select"
        /\ task[h].existing
        /\ r.id = task[h].found
        /\ r.comment = None
        /\ r.created_at < r.updated_at

\* C18: an upsert whose rating is not an integer from 1 to 5 fails: its commit
\* raises, the request ends there, and the ratings table and the providers'
\* aggregates are left as they were, whether the pair had a row or not;
\* hence every stored row has a rating from 1 to 5.
C18_InvalidRatingRejected ==
    /\ [](\A r \in ratings : r.rating \in 1..5)
    /\ [][\A h \in Slots :
            (Steps(h, "cu_commit") /\ task[h].val \notin 1..5)
                => /\ task'[h].pc = "reply"
                   /\ task'[h].out = "raised"
                   /\ ratings' = ratings
                   /\ average_rating' = average_rating
                   /\ rating_count' = rating_count]_vars

\* a re-rating with 6 stars has just been refused: the pair's row keeps the
\* rating it had
C18_Witness ==
    \E h \in Slots : \E r \in ratings :
        /\ task[h].kind \in {"skip", "comment"}
        /\ task[h].pc = "reply"
        /\ task[h].out = "raised"
        /\ task[h].val = 6
        /\ r.id = task[h].found
        /\ r.rating \in 1..5

\* the rows of a provider that count: those with is_moderated set
Counted(p) == {r \in ratings : r.provider_id = p /\ r.is_moderated = TRUE}

\* C19: update_rating writes to the provider the mean of the ratings of its
\* moderated rows (exactly: average * count = sum, in 1/AvgScale of a star)
\* and their number, 0 and 0 when it has none; rows that are not moderated
\* contribute to neither, and no other provider is written.
C19_RecomputeExact ==
    [][\A h \in Slots :
        Steps(h, "ur_update") =>
            LET p == task[h].arg
            IN  /\ rating_count'[p] = Cardinality(Counted(p))
                /\ average_rating'[p] * Cardinality(Counted(p))
                        = AvgScale * Stars(Counted(p))
                /\ Counted(p) = {} => average_rating'[p] = 0
                /\ \A q \in Providers \ {p} :
                        /\ average_rating'[q] = average_rating[q]
                        /\ rating_count'[q] = rating_count[q]]_vars

\* an aggregate has just been written for a provider that has a moderated
\* 5-star row and a 2-star row that is not moderated: only the former counts
C19_Witness ==
    \E h \in Slots : \E r \in ratings : \E m \in ratings :
        /\ task[h].kind = "recompute"
        /\ task[h].pc = "reply"
        /\ r.provider_id = task[h].arg /\ ~r.is_moderated /\ r.rating = 2
        /\ m.provider_id = task[h].arg /\ m.is_moderated /\ m.rating = 5
        /\ rating_count[task[h].arg] = 1
        /\ average_rating[task[h].arg] = 5 * AvgScale

\* the stored aggregate of a provider agrees with its moderated rows
Consistent(p) ==
    /\ rating_count[p] = Cardinality(Counted(p))
    /\ average_rating[p] * Cardinality(Counted(p)) = AvgScale * Stars(Counted(p))
    /\ Counted(p) = {} => average_rating[p] = 0

\* a save is in progress between the commit of the upsert and the end of
\* update_rating
Saving(h) == task[h].pc \in {"ur_select", "ur_update"}

\* C20: with updates handled one at a time and nothing failing, whenever no
\* rating save is in progress every provider's average_rating and
\* rating_count are the mean and the number of its moderated rows; and every
\* upsert that commits is followed, in the same handler and for the same
\* provider, by update_rating before the handler goes on to finish.
C20_AggregateConsistent ==
    /\ []((\A h \in Slots : ~Saving(h)) => \A p \in Providers : Consistent(p))
    /\ [][\A h \in Slots :
            /\ (Steps(h, "cu_commit") /\ ratings' # ratings)
                => task'[h].pc = "ur_select" /\ task'[h].arg = task[h].arg
            /\ Steps(h, "ur_select")
                => task'[h].pc = "ur_update" /\ task'[h].arg = task[h].arg
            /\ (Steps(h, "ur_update") /\ task[h].kind # "recompute")
                => /\ task'[h].pc = "st_clear"
                   /\ Consistent(task[h].arg)'
            /\ (Ends(h) /\ task[h].kind \in {"skip", "comment"}
                        /\ task[h].out # "raised")
                => Consistent(task[h].arg)]_vars

\* a user has re-rated a provider another user rated with different stars;
\* the handler is past update_rating and the aggregate is the mean of the two
C20_Witness ==
    \E h \in Slots :
        /\ task[h].kind \in {"skip", "comment"}
        /\ task[h].pc = "reply"
        /\ task[h].existing
        /\ rating_count[task[h].arg] = 2
        /\ 2 * average_rating[task[h].arg] = (2 + 5) * AvgScale

\* C21: update_rating is safe against racing upserts: once the rating saves
\* of two users for one provider have both completed (no handler task is
\* running any more), the provider's average_rating and rating_count are the
\* mean and the number of all its moderated rows, however the database calls
\* of the two tasks interleaved.
C21_RecomputeRaceSafe ==
    (\A h \in Slots : task[h].pc \in {"idle", "reply"})
        => \A p \in Providers : Consistent(p)

\* C22: average_rating and rating_count of a provider are only ever written
\* together, by the one UPDATE of update_rating and with the pair its SELECT
\* returned; a recompute that fails, in its SELECT or in its UPDATE, leaves
\* both columns of every provider as they were; so the stored pair is always
\* the average and the count of one set of ratings (no ratings: 0 and 0).
C22_AggregateWrittenTogether ==
    /\ [](\A p \in Providers :
            /\ rating_count[p] = 0 <=> average_rating[p] = 0
            /\ rating_count[p] > 0 =>
                    /\ average_rating[p] >= 1 * AvgScale
                    /\ average_rating[p] <= 5 * AvgScale)
    /\ [][/\ \A p \in Providers :
                (average_rating'[p] # average_rating[p]
                    \/ rating_count'[p] # rating_count[p])
                => \E h \in Slots :
                    /\ Steps(h, "ur_update")
                    /\ task[h].arg = p
                    /\ faults' = faults
                    /\ average_rating'[p] = task[h].avg
                    /\ rating_count'[p] = task[h].cnt
          /\ \A h \in Slots :
                (/\ task[h].pc \in {"ur_select", "ur_update"}
                 /\ task'[h].pc # task[h].pc
                 /\ faults' # faults)
                => /\ average_rating' = average_rating
                   /\ rating_count' = rating_count
                   /\ task'[h].out = "raised"]_vars

\* the UPDATE of a recompute has just failed for a provider whose rows now
\* differ from its stored aggregate: the previous pair is still in place
C22_Witness ==
    \E h \in Slots :
        /\ task[h].kind \in {"skip", "comment"}
        /\ task[h].pc = "reply"
        /\ task[h].out = "raised"
        /\ faults = 1
        /\ task[h].cnt = 2
        /\ rating_count[task[h].arg] = 1
        /\ average_rating[task[h].arg] \in {2 * AvgScale, 5 * AvgScale}
        /\ Cardinality(Counted(task[h].arg)) = 2

(***************************************************************************)
(* Favorites                                                               *)
(***************************************************************************)

\* the number of favorites rows of a (user, provider) pair
FavoriteRows(u, p) ==
    Cardinality({i \in 1..Len(favorites[u]) : favorites[u][i] = p})

\* C23: adding a favorite is idempotent: a pair never has more than one
\* FavoriteRecord; an add for a pair that is a favorite already leaves the
\* user's records, and so their order by add time, as they are; and no add
\* ends in an error, also when two adds of the same pair run concurrently.
C23_AddIdempotent ==
    /\ [](\A u \in Users, p \in Providers : FavoriteRows(u, p) <= 1)
    /\ [](\A h \in Slots : task[h].kind = "favorite" => task[h].out # "raised")
    /\ [][\A h \in Slots :
            (/\ task[h].kind = "favorite"
             /\ task'[h].pc # task[h].pc
             /\ IsFavorite(task[h].user, task[h].arg))
                => favorites' = favorites]_vars

\* C24: removing a favorite that does not exist reports false (rowcount 0),
\* raises nothing and leaves every favorites row in place; removing one that
\* exists reports true and deletes exactly that row: the pair is no favorite
\* afterwards, the user's other rows keep their order and other users' rows
\* are untouched.
C24_RemoveExact ==
    [][\A h \in Slots :
        Steps(h, "fav_db") =>
            LET u == task[h].user
                p == task[h].arg
                old == favorites[u]
                new == favorites'[u]
            IN  /\ task'[h].out = "favorite_removed"
                /\ \A v \in Users \ {u} : favorites'[v] = favorites[v]
                /\ IF IsFavorite(u, p)
                   THEN /\ task'[h].found = 1
                        /\ \E k \in 1..Len(old) :
                            /\ old[k] = p
                            /\ new = [i \in 1..(Len(old) - 1) |->
                                        IF i < k THEN old[i] ELSE old[i + 1]]
                        /\ \A i \in 1..Len(new) : new[i] # p
                   ELSE /\ task'[h].found = 0
                        /\ new = old]_vars

\* a favorite has just been removed while the user keeps another one
C24_Witness ==
    \E h \in Slots :
        /\ task[h].kind = "unfavorite"
        /\ task[h].pc = "reply"
        /\ task[h].found = 1
        /\ ~IsFavorite(task[h].user, task[h].arg)
        /\ Len(favorites[task[h].user]) = 1

(***************************************************************************)
(* Contact ledger                                                          *)
(***************************************************************************)

\* the number of ContactRecords of a provider
Ledger(p) == Cardinality({i \in 1..Len(contacts) : contacts[i].provider_id = p})

\* C25: the contact ledger is append-only: every contact that passes the
\* limit check for an existing provider appends one new ContactRecord of that
\* user and provider, also when the pair has records already; every other
\* step leaves the ledger as it is, so no record is ever changed or deleted
\* and no provider's number of records decreases.
C25_LedgerAppendOnly ==
    [][/\ \A h \in Slots :
            (Steps(h, "ct_create") /\ task[h].arg \in Providers)
                => /\ Len(contacts') = Len(contacts) + 1
                   /\ contacts'[Len(contacts')] =
                        [user_id |-> task[h].user, provider_id |-> task[h].arg]
       /\ Len(contacts') >= Len(contacts)
       /\ \A i \in 1..Len(contacts) : contacts'[i] = contacts[i]
       /\ Len(contacts') > Len(contacts)
            => \E h \in Slots : Steps(h, "ct_create")
       /\ \A p \in Providers : Ledger(p)' >= Ledger(p)]_vars

\* a user's second contact to the same provider has been recorded next to
\* the first
C25_Witness ==
    \E i, j \in 1..Len(contacts) :
        /\ i < j
        /\ contacts[i] = contacts[j]

\* C26: the two side effects of a recorded contact are independent: once the
\* ContactRecord is appended, the increment of the provider's contact_count
\* and the increment of the user's rate counter are both attempted, whether
\* or not the other one failed: the request goes from the contact_count write
\* on to the rate-counter increment also when that write failed, and a failed
\* rate-counter increment leaves the contact_count written before in place.
C26_IndependentEffects ==
    [][\A h \in Slots :
        /\ Steps(h, "ct_count") => task'[h].pc = "rl_incr"
        /\ Steps(h, "rl_incr") => contact_count' = contact_count]_vars

\* ------------------------------------------------- admin contact statistics
\* the limit callback_admin_stats_contacted passes
MOST_CONTACTED_LIMIT == 10

\* count(user_provider_contacts.id) of the provider's group
ContactRows(p) ==
    Cardinality({i \in 1..Len(contacts) : contacts[i].provider_id = p})

\* ContactRepository.get_most_contacted_providers: the providers joined to
\* at least one contact row, ORDER BY the count descending and by nothing
\* else, so the database returns rows of equal count in any order; LIMIT
get_most_contacted_providers(limit) ==
    LET joined == {p \in Providers : ContactRows(p) > 0}
        orders == IF joined = {} THEN {<<>>}
                  ELSE {s \in [1..Cardinality(joined) -> joined] :
                          /\ \A i, j \in DOMAIN s : i # j => s[i] # s[j]
                          /\ \A i, j \in DOMAIN s :
                                i < j => ContactRows(s[i]) >= ContactRows(s[j])}
    IN  {SubSeq(s, 1, Min(Len(s), limit)) : s \in orders}

\* the callback "admin:stats:contacted" arrives
StartMostContacted(h) ==
    \E u \in cfg.actors :
        /\ cfg.also = "stats"
        /\ FreeSlot(h)
        /\ task' = [task EXCEPT ![h] = NewTask("stats", "mc_query", u, 0)]
        /\ UNCHANGED <<cacheVars, dbVars, faults, fsm, cfg>>

\* the query runs; the handler formats the rows in the order returned
MostContacted(h) ==
    /\ At(h, "mc_query")
    /\ \E rows \in get_most_contacted_providers(MOST_CONTACTED_LIMIT) :
          task' = [task EXCEPT ![h] = [Finish(h, "stats") EXCEPT !.ids = rows]]
    /\ UNCHANGED <<cacheVars, dbVars, faults, fsm, cfg>>

\* contacts and the statistics page, one update at a time
InitStats == Start([Sequential(0, MaxContacts) EXCEPT !.also = "stats"])

NextStats ==
    \/ \E h \in Slots :
          \/ ContactStep(h)
          \/ StartMostContacted(h)
          \/ MostContacted(h)
          \/ Reply(h)
    \/ Tick

SpecStats == InitStats /\ [][NextStats]_vars

\* C27: the most-contacted page lists at most the limit of providers, by
\* their number of ContactRecords in the ledger descending, and providers
\* with the same number of records by identifier ascending.
C27_MostContactedOrder ==
    \A h \in Slots :
        (task[h].kind = "stats" /\ task[h].pc = "reply") =>
            /\ Len(task[h].ids) <= MOST_CONTACTED_LIMIT
            /\ \A i, j \in 1..Len(task[h].ids) :
                  i < j =>
                    \/ Ledger(task[h].ids[i]) > Ledger(task[h].ids[j])
                    \/ /\ Ledger(task[h].ids[i]) = Ledger(task[h].ids[j])
                       /\ task[h].ids[i] < task[h].ids[j]

\* C28: the snapshot a filter selection stores is ordered by average rating
\* descending, then contact count descending, then provider identifier
\* ascending: of two providers equal in rating and contact count the one with
\* the smaller identifier comes first.
C28_SnapshotOrder ==
    [][\A h \in Slots :
        (Steps(h, "cat_set") /\ Stored(task[h].user)') =>
            LET ids == Snapshot(task[h].user)'
            IN  \A i, j \in 1..Len(ids) :
                  i < j =>
                    \/ average_rating[ids[i]] > average_rating[ids[j]]
                    \/ /\ average_rating[ids[i]] = average_rating[ids[j]]
                       /\ contact_count[ids[i]] > contact_count[ids[j]]
                    \/ /\ average_rating[ids[i]] = average_rating[ids[j]]
                       /\ contact_count[ids[i]] = contact_count[ids[j]]
                       /\ ids[i] < ids[j]]_vars

\* updates of both users, one at a time: browsing with contacts, or the
\* menu with favorites
InitPartition ==
    \E feature \in {"contact", "favorite"} :
        Start([Sequential(IF feature = "contact" THEN MaxViews - 1 ELSE 0,
                          IF feature = "contact" THEN CONTACT_LIMIT_PER_HOUR ELSE 0)
                  EXCEPT !.actors = Users, !.also = feature])

NextPartition ==
    \E h \in Slots :
          \/ BrowseStep(h) \/ ContactStep(h) \/ FavoriteStep(h)
          \/ Reply(h)

SpecPartition == InitPartition /\ [][NextPartition]_vars

\* the cache keys of user u: browsing state, selected location, favorites
\* cursor and contact rate counter, each with its expiry
KeysOf(u) ==
    <<browsing_state[u], browsing_ttl[u], selected_location[u], location_ttl[u],
      favorite_ids[u], favorite_ids_ttl[u], favorite_index[u],
      favorite_index_ttl[u], ratelimit[u], ratelimit_ttl[u]>>

\* C29: per-user state is partitioned by key: a step of a handler working
\* for user A (browsing, navigation, contact, rate limit, favorites) leaves
\* the BrowsingState, selected location, favorites cursor and rate-limit
\* counter of every other user B as they were.
C29_PartitionedByUser ==
    [][\A h \in Slots :
        Acts(h) =>
            \A b \in Users :
                (b # task[h].user /\ b # task'[h].user) => KeysOf(b)' = KeysOf(b)]_vars

\* user 1 stores a new browsing state while user 2 has a browsing state, a
\* selected location and a rate counter of their own
C29_Witness ==
    \E h \in Slots :
        /\ task[h].user = 1
        /\ task[h].pc = "sp_get"
        /\ task[h].kind = "category"
        /\ browsing_ttl[1] > 0
        /\ browsing_ttl[2] > 0
        /\ location_ttl[2] > 0
        /\ ratelimit[2] > 0

\* ------------------------------------------------------------ registration
\* the parameters of UserRepository.create
CreateParameters ==
    {"telegram_id", "username", "first_name", "last_name", "language_code"}

\* the keyword arguments cmd_start passes to it
CreateArguments == {"telegram_id", "username", "language_code", "is_admin"}

\* a Python call with a keyword the function does not declare raises
\* TypeError before the function body runs
Accepts(arguments, parameters) == arguments \subseteq parameters

\* UserRepository.get_by_telegram_id
get_by_telegram_id(telegram_id) == {r \in users : r.telegram_id = telegram_id}

\* the update "/start" arrives
StartCmd(h) ==
    \E u \in cfg.actors :
        /\ cfg.also = "start"
        /\ FreeSlot(h)
        /\ task' = [task EXCEPT ![h] = NewTask("start", "cs_get", u, 0)]
        /\ UNCHANGED <<cacheVars, dbVars, faults, fsm, cfg>>

\* cmd_start: existing_user = get_by_telegram_id(...); an existing user gets
\* the welcome text and the main menu
StartLookup(h) ==
    /\ At(h, "cs_get")
    /\ task' = [task EXCEPT ![h] =
            IF get_by_telegram_id(task[h].user) # {}
            THEN [Finish(h, "welcome") EXCEPT !.existing = TRUE]
            ELSE Goto(h, "cs_create")]
    /\ UNCHANGED <<cacheVars, dbVars, faults, fsm, cfg>>

\* cmd_start, new user: user_repo.create(..., is_admin=is_admin), then the
\* prompt for the first name and set_state(waiting_for_first_name); when the
\* call raises, the handler ends there with no row and the FSM untouched
StartCreate(h) ==
    /\ At(h, "cs_create")
    /\ IF Accepts(CreateArguments, CreateParameters)
       THEN /\ users' = users \cup {NewUser(task[h].user)}
            /\ fsm' = [fsm EXCEPT ![task[h].user].state = "waiting_for_first_name"]
            /\ task' = [task EXCEPT ![h] = Finish(h, "ask_first_name")]
       ELSE /\ UNCHANGED <<users, fsm>>
            /\ task' = [task EXCEPT ![h] = Finish(h, "raised")]
    /\ UNCHANGED <<cacheVars, is_active, contact_count, view_count, loc_active,
                   contacts, favorites, ratingVars, faults, cfg>>

\* "/start" and the main menu, as concurrent tasks, sent by users with and
\* without an account
InitRegistration ==
    \E accounts \in SUBSET Users :
        StartFrom([Concurrent(FALSE, 0, 0, 0)
                      EXCEPT !.also = "start", !.actors = Users], {}, accounts)

NextRegistration ==
    \E h \in Slots :
        \/ StartCmd(h) \/ StartLookup(h) \/ StartCreate(h)
        \/ StartMenu(h) \/ BrowseStart(h)
        \/ Reply(h)

SpecRegistration == InitRegistration /\ [][NextRegistration]_vars

\* C30: registration progresses awaiting-first-name, awaiting-last-name,
\* awaiting-phone, awaiting-location, complete, starting from /start by a
\* user with no account; the first stage of it: once /start of a user with
\* no account has been handled, the user has an account and the dialogue
\* awaits the first name.
C30_RegistrationProgresses ==
    \A h \in Slots :
        (task[h].kind = "start" /\ task[h].pc = "reply" /\ ~task[h].existing)
            => /\ \E r \in users : r.telegram_id = task[h].user
               /\ fsm[task[h].user].state = "waiting_for_first_name"

\* C31: whenever a BrowsingState exists its current_index is within the
\* snapshot, 0 <= current_index < len(provider_ids), also when a navigation
\* handler of a user interleaves with a filter selection of the same user
\* that replaces the snapshot with a shorter one.
C31_IndexWithinSnapshot ==
    \A u \in Users :
        browsing_ttl[u] > 0 =>
            /\ 0 <= browsing_state[u].current_index
            /\ browsing_state[u].current_index < Len(browsing_state[u].provider_ids)

\* a burst of contact requests, handled as concurrent tasks, all inside one
\* rate-limit window (the clock does not advance); more requests than the
\* limit and the tasks in flight together allow
InitBurst ==
    Start(Concurrent(FALSE, 0, 0, CONTACT_LIMIT_PER_HOUR + MaxInFlight))

NextBurst == \E h \in Slots : ContactStep(h) \/ Reply(h)

SpecBurst == InitBurst /\ [][NextBurst]_vars

\* the ContactRecords of user u
RecordsOf(u) == Cardinality({i \in 1..Len(contacts) : contacts[i].user_id = u})

\* C32: contact enforcement is check, then act, then increment: with at most
\* k = MaxInFlight contact handlers of a user in flight at any time, the
\* ContactRecords the user creates within one rate-limit window never exceed
\* L + k - 1; a handler passes the check only while the counter is below L,
\* and creates its record before it increments the counter.
C32_OvershootBounded ==
    /\ [](\A u \in Users :
            RecordsOf(u) <= CONTACT_LIMIT_PER_HOUR + MaxInFlight - 1)
    /\ [][\A h \in Slots :
            /\ (Steps(h, "ct_check") /\ task'[h].pc = "ct_create")
                    => ratelimit[task[h].user] < CONTACT_LIMIT_PER_HOUR
            /\ Steps(h, "ct_create") => ratelimit' = ratelimit
            /\ Steps(h, "rl_incr") => contacts' = contacts]_vars

\* the limit exceeded: a user has L + k - 1 > L records in one window
C32_Witness ==
    \E u \in Users :
        /\ RecordsOf(u) = CONTACT_LIMIT_PER_HOUR + MaxInFlight - 1
        /\ RecordsOf(u) > CONTACT_LIMIT_PER_HOUR
        /\ ratelimit[u] = RecordsOf(u)

\* C33: in runs without store failures, whenever no contact handler is in
\* progress each provider's contact_count field equals the number of
\* ContactRecords of that provider, however the concurrent contact handlers
\* interleave.
C33_CountMatchesLedger ==
    (\A h \in Slots : task[h].pc = "idle")
        => \A p \in Providers :
              contact_count[p] =
                Cardinality({i \in 1..Len(contacts) : contacts[i].provider_id = p})

\* overlapping requests for one provider took its field past the limit, to
\* L + k - 1, and all of them have finished
C33_Witness ==
    /\ \A h \in Slots : task[h].pc = "idle"
    /\ \E p \in Providers : contact_count[p] = CONTACT_LIMIT_PER_HOUR + MaxInFlight - 1

\* what a contact action may write: the ledger, the providers' contact_count
\* and the users' rate counters with their expiries
ContactEffects == <<contacts, contact_count, ratelimit, ratelimit_ttl>>

\* C34: a rejected contact action, rejected because the user's counter is at
\* or above the limit or because the provider does not exist, appends no
\* ContactRecord and leaves the provider's contact_count and the user's rate
\* counter and its expiry unchanged: none of its steps, from the check to
\* the answer, writes any of them.
C34_RejectionWritesNothing ==
    [][\A h \in Slots :
        /\ (Steps(h, "ct_check") /\ ratelimit[task[h].user] >= CONTACT_LIMIT_PER_HOUR
                /\ faults' = faults)
                => /\ task'[h].out = "limit"
                   /\ UNCHANGED ContactEffects
        /\ (Steps(h, "ct_check") /\ task[h].arg \notin Providers)
                => UNCHANGED ContactEffects
        /\ (Steps(h, "ct_create") /\ task[h].arg \notin Providers)
                => /\ task'[h].out = "error"
                   /\ UNCHANGED ContactEffects
        /\ (Ends(h) /\ task[h].out \in {"limit", "error"})
                => UNCHANGED ContactEffects]_vars

\* one request was rejected at the limit and another for a provider that
\* does not exist, with records in the ledger and the counter at the limit
C34_Witness ==
    \E g, h \in Slots :
        /\ task[g].kind = "contact" /\ task[g].out = "limit"
        /\ task[h].kind = "contact" /\ task[h].out = "error"
        /\ ratelimit[task[g].user] >= CONTACT_LIMIT_PER_HOUR
        /\ Len(contacts) >= CONTACT_LIMIT_PER_HOUR

\* C35: the contact window is fixed, not sliding: the increment that brings
\* the counter to 1 gives the key its expiry, no later increment of that
\* window changes it, and so a counter that exists, once the request that
\* created it is through with its increment, always has a window that ends
\* within one TTL.
C35_FixedWindow ==
    /\ [](\A u \in Users :
            (/\ ratelimit[u] >= 1
             /\ ~\E h \in Slots : task[h].user = u /\ task[h].pc = "rl_expire")
                => ratelimit_ttl[u] \in 1..OneHour)
    /\ [][\A h \in Slots :
            (Steps(h, "rl_incr") /\ ratelimit[task[h].user] >= 1)
                => ratelimit_ttl'[task[h].user] = ratelimit_ttl[task[h].user]]_vars

\* C36: the daily rating count is the number of the user's RatingRecords
\* whose created_at falls in the current UTC day: the limit check of rate:
\* refuses exactly when that number has reached the limit, a re-rating of an
\* already rated provider leaves the number as it is, and a rating created
\* on an earlier day and edited today does not count today.
C36_DailyCountByCreation ==
    [][\A h \in Slots :
        /\ Steps(h, "rt_count")
            => (task'[h].out = "rating_limit"
                  <=> Cardinality(CreatedOn(task[h].user, utc_day))
                          >= RATING_LIMIT_PER_DAY)
        /\ (Steps(h, "cu_commit") /\ task[h].found # 0)
            => Cardinality(CreatedOn(task[h].user, utc_day)')
                  = Cardinality(CreatedOn(task[h].user, utc_day))]_vars

\* the rate: check lets the user through on a day on which the user has
\* edited a rating created the day before
C36_Witness ==
    \E h \in Slots : \E r \in ratings :
        /\ task[h].kind = "rate"
        /\ task[h].out = "rate_provider"
        /\ r.user_id = task[h].user
        /\ r.created_at < utc_day
        /\ r.updated_at = utc_day


\* ------------------------------------------------ the registration dialogue
\* message.from_user of a message the bot itself sent (callback.message)
BotId == 0

\* the characters of the message texts explored
Characters == {" ", "a"}

\* the texts of at most MaxText characters sent as a name
NameTexts == UNION {[1..n -> Characters] : n \in 0..MaxText}

\* str.strip(): the text without its leading and trailing whitespace
strip(text) ==
    LET kept == {i \in DOMAIN text : text[i] # " "}
    IN  IF kept = {} THEN <<>>
        ELSE SubSeq(text, CHOOSE i \in kept : \A j \in kept : i <= j,
                          CHOOSE i \in kept : \A j \in kept : j <= i)

\* the test of only an empty name (the length is not looked at)
TooShortEmpty(name) == name = <<>>

\* process_first_name, process_last_name: "if not name or len(name) < 2"
TooShort(name) == name = <<>> \/ Len(name) < 2

\* the handler of the start router whose state filter matches a message
RegistrationHandler(state, msg) ==
    CASE state = "waiting_for_first_name" -> "first_name"
      [] state = "waiting_for_last_name" -> "last_name"
      [] state = "waiting_for_phone" /\ msg = "contact" -> "phone"
      [] state = "waiting_for_phone" /\ msg # "contact" -> "phone_text"
      [] OTHER -> "none"

\* a message arrives while the sender's dialogue is in a registration state
\* with a message handler: a text, a shared contact, or a message with
\* neither (a photo)
StartRegMessage(h) ==
    \E u \in cfg.actors, msg \in {"text", "contact", "other"}, text \in NameTexts :
        /\ FreeSlot(h)
        /\ RegistrationHandler(fsm[u].state, msg) # "none"
        /\ msg # "text" => text = <<>>
        /\ task' = [task EXCEPT ![h] =
                [NewTask(RegistrationHandler(fsm[u].state, msg), "reg_check", u, 0)
                    EXCEPT !.msg = msg, !.txt = text]]
        /\ UNCHANGED <<cacheVars, dbVars, faults, fsm, cfg>>

\* process_first_name, process_last_name up to the validation:
\* message.text.strip() raises AttributeError when the message has no text;
\* a name that is too short is answered with the error text and the handler
\* returns
ProcessName(h) ==
    /\ At(h, "reg_check")
    /\ task[h].kind \in {"first_name", "last_name"}
    /\ task' = [task EXCEPT ![h] =
            IF task[h].msg # "text" THEN Finish(h, "raised")
            ELSE IF TooShort(strip(task[h].txt)) THEN Finish(h, "name_too_short")
            ELSE Goto(h, "reg_data")]
    /\ UNCHANGED <<cacheVars, dbVars, faults, fsm, cfg>>

\* ... state.update_data(first_name=first_name) / (last_name=last_name)
NameData(h) ==
    /\ At(h, "reg_data")
    /\ fsm' = [fsm EXCEPT ![task[h].user][task[h].kind] = strip(task[h].txt)]
    /\ task' = [task EXCEPT ![h] = Goto(h, "reg_state")]
    /\ UNCHANGED <<cacheVars, dbVars, faults, cfg>>

\* ... state.set_state(waiting_for_last_name) / (waiting_for_phone)
NameState(h) ==
    /\ At(h, "reg_state")
    /\ fsm' = [fsm EXCEPT ![task[h].user].state =
            IF task[h].kind = "first_name" THEN "waiting_for_last_name"
            ELSE "waiting_for_phone"]
    /\ task' = [task EXCEPT ![h] = Finish(h, "ask_next")]
    /\ UNCHANGED <<cacheVars, dbVars, faults, cfg>>

\* process_phone: state.update_data(phone_number=message.contact.phone_number)
ProcessPhone(h) ==
    /\ At(h, "reg_check")
    /\ task[h].kind = "phone"
    /\ fsm' = [fsm EXCEPT ![task[h].user].phone_number = "phone"]
    /\ task' = [task EXCEPT ![h] = Goto(h, "phone_locations")]
    /\ UNCHANGED <<cacheVars, dbVars, faults, cfg>>

\* process_phone: locations = get_all_active(); with none,
\* complete_registration(message, ...) is called at once
PhoneLocations(h) ==
    /\ At(h, "phone_locations")
    /\ task' = [task EXCEPT ![h] =
            IF get_all_active = {}
            THEN [Goto(h, "cr_data") EXCEPT !.tid = task[h].user]
            ELSE Goto(h, "phone_state")]
    /\ UNCHANGED <<cacheVars, dbVars, faults, fsm, cfg>>

\* process_phone: the prompt for the location, then
\* state.set_state(waiting_for_location)
PhoneState(h) ==
    /\ At(h, "phone_state")
    /\ fsm' = [fsm EXCEPT ![task[h].user].state = "waiting_for_location"]
    /\ task' = [task EXCEPT ![h] = Finish(h, "ask_location")]
    /\ UNCHANGED <<cacheVars, dbVars, faults, cfg>>

\* process_phone_text: the error text with the phone button
ProcessPhoneText(h) ==
    /\ At(h, "reg_check")
    /\ task[h].kind = "phone_text"
    /\ task' = [task EXCEPT ![h] = Finish(h, "use_button")]
    /\ UNCHANGED <<cacheVars, dbVars, faults, fsm, cfg>>

\* an update "reg_location:<location_id>" arrives; the handler has no state
\* filter
StartRegLocation(h) ==
    \E u \in cfg.actors, location_id \in Locations :
        /\ FreeSlot(h)
        /\ cfg.also \in {"rating", "registration"}
        /\ task' = [task EXCEPT ![h] =
                NewTask("reg_location", "loc_data", u, location_id)]
        /\ UNCHANGED <<cacheVars, dbVars, faults, fsm, cfg>>

\* process_location: state.update_data(location_id=location_id), then
\* complete_registration(callback.message, ...): the message is the bot's
ProcessLocation(h) ==
    /\ At(h, "loc_data")
    /\ fsm' = [fsm EXCEPT ![task[h].user].location_id = task[h].arg]
    /\ task' = [task EXCEPT ![h] = [Goto(h, "cr_data") EXCEPT !.tid = BotId]]
    /\ UNCHANGED <<cacheVars, dbVars, faults, cfg>>

\* complete_registration: data = state.get_data()
CompleteData(h) ==
    /\ At(h, "cr_data")
    /\ task' = [task EXCEPT ![h] =
            [Goto(h, "cr_update") EXCEPT !.data = fsm[task[h].user]]]
    /\ UNCHANGED <<cacheVars, dbVars, faults, fsm, cfg>>

\* UserRepository.update_user_info: one UPDATE of the columns whose argument
\* is not None, on the row of that telegram_id
update_user_info(telegram_id, data) ==
    {IF r.telegram_id # telegram_id THEN r
     ELSE [r EXCEPT
            !.first_name = IF data.first_name # <<>> THEN data.first_name ELSE @,
            !.last_name = IF data.last_name # <<>> THEN data.last_name ELSE @,
            !.phone_number = IF data.phone_number # None
                             THEN data.phone_number ELSE @,
            !.location_id = IF data.location_id # 0 THEN data.location_id ELSE @]
     : r \in users}

\* complete_registration: update_user_info(telegram_id=message.from_user.id,
\* first_name=data.get("first_name"), ...)
CompleteUpdate(h) ==
    /\ At(h, "cr_update")
    /\ users' = update_user_info(task[h].tid, task[h].data)
    /\ task' = [task EXCEPT ![h] = Goto(h, "cr_clear")]
    /\ UNCHANGED <<cacheVars, is_active, contact_count, view_count, loc_active,
                   contacts, favorites, ratingVars, faults, fsm, cfg>>

\* complete_registration: state.clear(), then the success text and the menu
CompleteClear(h) ==
    /\ At(h, "cr_clear")
    /\ fsm' = [fsm EXCEPT ![task[h].user] = NoDialogue]
    /\ task' = [task EXCEPT ![h] = Finish(h, "registered")]
    /\ UNCHANGED <<cacheVars, dbVars, faults, cfg>>

CompleteStep(h) ==
    \/ StartRegLocation(h) \/ ProcessLocation(h)
    \/ CompleteData(h) \/ CompleteUpdate(h) \/ CompleteClear(h)


\* the FSM storage of a user the dialogue has brought to a registration
\* state: the data of the stages before it is collected
Awaiting(state) ==
    [NoDialogue EXCEPT
        !.state = state,
        !.first_name = IF state = "waiting_for_first_name"
                       THEN <<>> ELSE <<"a", "a">>,
        !.last_name = IF state \in {"waiting_for_first_name", "waiting_for_last_name"}
                      THEN <<>> ELSE <<"a", "a">>]

\* the handlers of the registration dialogue, as concurrent tasks, from each
\* of its stages with a message handler
InitDialogue ==
    \E state \in {"waiting_for_first_name", "waiting_for_last_name",
                  "waiting_for_phone"} :
        StartIn([Concurrent(FALSE, 0, 0, 0) EXCEPT !.also = "registration"],
                {}, Users,
                [u \in Users |-> IF u \in Actors THEN Awaiting(state)
                                 ELSE NoDialogue])

NextDialogue ==
    \/ \E h \in Slots :
        \/ StartRegMessage(h) \/ ProcessName(h) \/ NameData(h) \/ NameState(h)
        \/ ProcessPhone(h) \/ PhoneLocations(h) \/ PhoneState(h)
        \/ ProcessPhoneText(h)
        \/ CompleteStep(h)
        \/ Reply(h)
    \/ ToggleLocation

SpecDialogue == InitDialogue /\ [][NextDialogue]_vars


\* a text with fewer than 2 characters between its first and its last
\* character that is not a space
ShortTrimmed(text) ==
    \A i, j \in DOMAIN text : (text[i] # " " /\ text[j] # " ") => i = j

\* the task handles an invalid input of the registration dialogue: a short
\* name sent while a name is awaited, or a message that is no contact sent
\* while the phone is awaited
InvalidInput(t) ==
    \/ t.kind \in {"first_name", "last_name"} /\ t.msg = "text" /\ ShortTrimmed(t.txt)
    \/ t.kind = "phone_text"

\* C37: in the registration flow an invalid input leaves the flow state and
\* the collected data unchanged: no step of a handler of a first or last name
\* shorter than 2 characters after trimming, or of a message that is no
\* contact while the phone is awaited, changes the FSM state or data.
C37_InvalidInputKeepsDialogue ==
    [][\A h \in Slots :
        (task'[h] # task[h] /\ (InvalidInput(task[h]) \/ InvalidInput(task'[h])))
            => fsm' = fsm]_vars

\* a name of one character after a space was refused while the first name
\* was awaited, and the dialogue still awaits it with nothing collected
C37_Witness ==
    \E h \in Slots :
        /\ task[h].pc = "reply"
        /\ task[h].kind = "first_name"
        /\ task[h].out = "name_too_short"
        /\ task[h].txt = <<" ", "a">>
        /\ fsm[task[h].user] = Awaiting("waiting_for_first_name")


\* a registered user in and out of the rating dialogue, and the callback of
\* a location choice, as concurrent tasks
InitLocationChoice ==
    Start([Concurrent(FALSE, 0, 0, 0) EXCEPT !.also = "rating", !.values = {5}])

NextLocationChoice ==
    \E h \in Slots :
        \/ StartRatingSelect(h) \/ RatingSelect(h)
        \/ CompleteStep(h)
        \/ Reply(h)

SpecLocationChoice == InitLocationChoice /\ [][NextLocationChoice]_vars

\* the steps of complete_registration
CompleteSteps == {"cr_data", "cr_update", "cr_clear"}

\* C38: registration completes only after the preceding steps:
\* complete_registration runs only from awaiting-location (or from
\* awaiting-phone, called by process_phone), so a location-choice callback
\* received in any other state does not complete registration or write user
\* fields: it takes no step of complete_registration, leaves the dialogue
\* state as it was and leaves the users table alone.
C38_CompletesOnlyAfterSteps ==
    [][\A h \in Slots :
        (task[h].kind = "reg_location" /\ task'[h] # task[h]
            /\ fsm[task[h].user].state # "waiting_for_location")
            => /\ task[h].pc \notin CompleteSteps
               /\ fsm'[task[h].user].state = fsm[task[h].user].state
               /\ users' = users]_vars


\* C39: favorites pagination keeps its cursor in bounds and never fails:
\* whenever favorite_ids and favorite_index are stored (and cmd_favorites is
\* not between its two writes of them), the index is in
\* [0, len(favorite_ids) - 1], and no fav:next or fav:prev raises an error,
\* also when a session key is absent because it has expired.
C39_CursorInBoundsNeverFails ==
    /\ \A u \in Users :
        (/\ favorite_ids_ttl[u] > 0
         /\ favorite_index_ttl[u] > 0
         /\ ~\E g \in Slots : task[g].kind = "favorites" /\ task[g].user = u)
            => favorite_index[u] \in 0..(Len(favorite_ids[u]) - 1)
    /\ \A h \in Slots :
        task[h].kind \in {"fav_next", "fav_prev"} => task[h].out # "raised"

====
